---- MODULE Spec2Model ----
(***************************************************************************)
(* IndyFlow: the contact / project use cases, the Prisma repositories they *)
(* are wired to, and the /api/projects route handlers that sequence them.  *)
(*                                                                         *)
(* Representation                                                          *)
(*   - a table is a set of rows; a nullable column holds {} (NULL) or {v}; *)
(*   - a DTO is a record whose optional fields are simply not in its       *)
(*     domain when they are undefined;                                     *)
(*   - an id is an integer: n >= 1 is the n-th cuid the database handed    *)
(*     out, EmptyId is the empty string, NonCuidId a non-empty string that *)
(*     is not a cuid (such as "missing-id");                               *)
(*   - a date string is a record: an ISO string denoting an instant, a     *)
(*     string that does not parse, or the empty string;                    *)
(*   - an error message is the template literal with its interpolated      *)
(*     values kept apart: [tpl, args].                                     *)
(***************************************************************************)
EXTENDS Integers, Sequences, FiniteSets, TLC

\* ------------------------------------------------------------------ bounds

\* How many cuids the database hands out in one run (contacts and projects).
MaxIds == 3

\* The clock runs from 0 to MaxTime.
MaxTime == 1

\* How many projects the Project table holds at once.
MaxProjects == 1

\* How many projects the Project table holds when lists are read.
MaxListed == 3

\* The contact ids that projects are created for when lists are read.
MaxOwners == 2

\* The largest page and the largest limit asked of a list.
MaxPage == 2

MaxLimit == 2

\* How many executions overlap in time.
MaxProcs == 2

\* The largest total count a list screen is shown.
MaxTotalCount == 4

\* ------------------------------------------------------- values and helpers

EmptyId == 0

NonCuidId == -1

IsCuid(id) == id >= 1

IdInputs == {NonCuidId, EmptyId} \cup (1..MaxIds)

ContactStatus == {"PROSPECT", "CLIENT"}

ProjectStatus ==
    {"PENDING", "QUOTE_SENT", "ACCEPTED", "IN_PROGRESS", "COMPLETED", "CANCELLED"}

Min(a, b) == IF a < b THEN a ELSE b

Max(a, b) == IF a > b THEN a ELSE b

\* Date.toISOString(): the ISO string of an instant.
toISOString(t) == [kind |-> "iso", ms |-> t]

InvalidDateString == [kind |-> "invalid", ms |-> 0]

EmptyDateString == [kind |-> "empty", ms |-> 0]

\* new Date(s).getTime(): {t} for a string that parses, {} for NaN.
DateGetTime(s) == IF s.kind = "iso" THEN {s.ms} ELSE {}

\* JavaScript truthiness of a string: only the empty string is falsy.
DateTruthy(s) == s.kind # "empty"

\* The length of a day on the clock: today.setHours(0, 0, 0, 0) is the start of
\* the day the clock is in.
DayLen == 2

StartOfDay(t) == t - (t % DayLen)

\* ------------------------------------------------------------------ errors

Ok(v) == [threw |-> "none", value |-> v]

AppError(tpl, args, statusCode) ==
    [threw |-> "AppError", message |-> [tpl |-> tpl, args |-> args],
     statusCode |-> statusCode]

\* Any thrown value that is not an AppError.
RawError == [threw |-> "Error"]

Threw(res) == res.threw # "none"

\* ------------------------------------------------------------------- state

VARIABLES
    contacts,   \* the Contact table
    projects,   \* the Project table
    nextId,     \* the next cuid the database hands out
    now,        \* the clock
    last,       \* the last operation: its input, what it returned or threw,
                \* the repository calls it made, and the tables before it
    inflight    \* the executions that overlap in time: for each, the await
                \* it is suspended at and what it has read, or its outcome

vars == <<contacts, projects, nextId, now, last, inflight>>

DB == [contacts |-> contacts, projects |-> projects, nextId |-> nextId]

\* ------------------------------------------------------------ fault model

NoFault == [at |-> 0, how |-> "none"]

\* The k-th repository call of an execution fails: "prisma" is the Prisma
\* client rejecting inside the adapter's try block, "raw" is a repository
\* implementation of the port that lets a non-application exception escape.
Faults == {[at |-> k, how |-> h] : k \in 1..2, h \in {"prisma", "raw"}}

FaultAt(f, k) == IF f.at = k THEN f.how ELSE "none"

\* One call through a repository port.
PortCall(flt, db, ok, wrapped) ==
    CASE flt = "none" -> ok
      [] flt = "prisma" -> [res |-> wrapped, db |-> db]
      [] OTHER -> [res |-> RawError, db |-> db]

\* ------------------------------------------------------------ Contact entity

\* The value of an optional DTO field as a nullable column: {} when undefined.
Opt(data, k) == IF k \in DOMAIN data THEN {data[k]} ELSE {}

TheOne(S) == CHOOSE v \in S : TRUE

ContactNullable == {"phone", "company", "notes"}

\* Contact.fromDB: NULL columns become undefined, createdAt an ISO string.
Contact_fromDB(row) ==
    [k \in {"id", "name", "email", "status", "createdAt"}
           \cup {n \in ContactNullable : row[n] # {}} |->
        CASE k = "createdAt" -> toISOString(row.createdAt)
          [] k \in ContactNullable -> TheOne(row[k])
          [] OTHER -> row[k]]

\* --------------------------------------------- contactRepo (Prisma adapter)

\* prisma.contact.create: the row the database stores; status defaults to
\* PROSPECT, id and createdAt are the column defaults cuid() and now().
ContactRowOf(db, clock, data) ==
    [id |-> db.nextId,
     name |-> data.name,
     email |-> data.email,
     phone |-> Opt(data, "phone"),
     company |-> Opt(data, "company"),
     notes |-> Opt(data, "notes"),
     status |-> IF "status" \in DOMAIN data THEN data.status ELSE "PROSPECT",
     createdAt |-> clock]

\* The unique index Contact_email_key, for the row `id` being written.
EmailTaken(db, email, id) ==
    \E c \in db.contacts : c.email = email /\ c.id # id

contactRepo_create(db, clock, data, flt) ==
    LET wrapped == AppError("Error creating contact in the database", <<>>, 500)
        row == ContactRowOf(db, clock, data)
    IN  PortCall(flt, db,
            IF EmailTaken(db, data.email, row.id)
            THEN [res |-> wrapped, db |-> db]
            ELSE [res |-> Ok(Contact_fromDB(row)),
                  db |-> [db EXCEPT !.contacts = @ \cup {row},
                                    !.nextId = @ + 1]],
            wrapped)

\* The result of a find is the set of entities found: {} is null.
contactRepo_findByEmail(db, email, flt) ==
    PortCall(flt, db,
        [res |-> Ok({Contact_fromDB(c) : c \in {r \in db.contacts : r.email = email}}),
         db |-> db],
        AppError("Error fetching contact by email from the database", <<>>, 500))

contactRepo_findById(db, id, flt) ==
    PortCall(flt, db,
        [res |-> Ok({Contact_fromDB(c) : c \in {r \in db.contacts : r.id = id}}),
         db |-> db],
        AppError("Error fetching contact by ID from the database", <<>>, 500))

\* The rows of a table in one order the database may return them for
\* ORDER BY createdAt DESC: rows with equal createdAt come in any order.
RECURSIVE OrdersDesc(_)
OrdersDesc(rows) ==
    IF rows = {} THEN {<<>>}
    ELSE UNION {{<<r>> \o s : s \in OrdersDesc(rows \ {r})} :
                   r \in {x \in rows : \A y \in rows : y.createdAt <= x.createdAt}}

\* skip / take of a query.
SkipTake(s, skip, take) == SubSeq(s, skip + 1, Min(skip + take, Len(s)))

\* records.map(Contact.fromDB)
Contacts_fromDB(rows) == [i \in 1..Len(rows) |-> Contact_fromDB(rows[i])]

\* `ord` is the order the database returns the rows in (one of OrdersDesc).
contactRepo_findMany(db, skip, take, ord, flt) ==
    PortCall(flt, db,
        [res |-> Ok(Contacts_fromDB(SkipTake(ord, skip, take))), db |-> db],
        AppError("Error fetching contacts list from the database", <<>>, 500))

\* prisma.contact.update: only the fields given are written.
ContactApply(row, data) ==
    [k \in DOMAIN row |->
        IF k \notin DOMAIN data THEN row[k]
        ELSE IF k \in ContactNullable THEN {data[k]} ELSE data[k]]

\* An update on a table without the unique index on email.
contactRepo_update_NoUniqueIndex(db, id, data, flt) ==
    LET wrapped == AppError("Error updating contact in the database", <<>>, 500)
        found == {r \in db.contacts : r.id = id}
    IN  PortCall(flt, db,
            IF found = {} THEN [res |-> wrapped, db |-> db]
            ELSE LET row == ContactApply(TheOne(found), data)
                 IN  [res |-> Ok(Contact_fromDB(row)),
                      db |-> [db EXCEPT !.contacts = (@ \ found) \cup {row}]],
            wrapped)

contactRepo_update(db, id, data, flt) ==
    LET wrapped == AppError("Error updating contact in the database", <<>>, 500)
        found == {r \in db.contacts : r.id = id}
    IN  PortCall(flt, db,
            IF found = {} THEN [res |-> wrapped, db |-> db]
            ELSE LET row == ContactApply(TheOne(found), data)
                 IN  IF EmailTaken(db, row.email, id)
                     THEN [res |-> wrapped, db |-> db]
                     ELSE [res |-> Ok(Contact_fromDB(row)),
                           db |-> [db EXCEPT !.contacts = (@ \ found) \cup {row}]],
            wrapped)

\* prisma.contact.delete: Project_contactId_fkey is ON DELETE RESTRICT.
contactRepo_delete(db, id, flt) ==
    LET wrapped == AppError("Error deleting contact from the database", <<>>, 500)
        found == {r \in db.contacts : r.id = id}
    IN  PortCall(flt, db,
            IF found = {} \/ (\E p \in db.projects : p.contactId = id)
            THEN [res |-> wrapped, db |-> db]
            ELSE [res |-> Ok({}), db |-> [db EXCEPT !.contacts = @ \ found]],
            wrapped)

contactRepo_count(db, flt) ==
    PortCall(flt, db,
        [res |-> Ok(Cardinality(db.contacts)), db |-> db],
        AppError("Error counting contacts in the database", <<>>, 500))

\* -------------------------------------------------------- contact use cases

\* What one execute call did: what it returned or threw, the database after
\* it, and the repository calls it made, in the order it made them.
UC(res, db, calls) == [res |-> res, db |-> db, calls |-> calls]

Call(method, args) == [method |-> method, args |-> args]

\* A creation that ignores the status it is given.
CreateContactData_AlwaysProspect(data) ==
    [k \in {"name", "email", "status"} \cup (DOMAIN data \cap ContactNullable) |->
        IF k = "status" THEN "PROSPECT" ELSE data[k]]

\* The object CreateContact hands to contactRepo.create.
CreateContactData(data) ==
    [k \in {"name", "email", "status"} \cup (DOMAIN data \cap ContactNullable) |->
        IF k = "status"
        THEN (IF "status" \in DOMAIN data THEN data.status ELSE "PROSPECT")
        ELSE data[k]]

\* CreateContact without the findByEmail guard: the unique index alone
\* refuses the duplicate.
CreateContact_execute_NoEmailCheck(db, clock, data, f) ==
    LET arg == CreateContactData(data)
        newContact == contactRepo_create(db, clock, arg, FaultAt(f, 1))
    IN  UC(newContact.res, newContact.db, <<Call("contactRepo.create", <<arg>>)>>)

\* CreateContact.execute from the point where findByEmail has settled with
\* `existing`, on the database as it is then.
CreateContact_resume(db, clock, data, existing, f) ==
    LET c1 == Call("contactRepo.findByEmail", <<data.email>>)
    IN  IF Threw(existing.res) THEN UC(existing.res, db, <<c1>>)
        ELSE IF existing.res.value # {}
        THEN UC(AppError("Unable to create contact. A contact with email ${} already exists.",
                         <<data.email>>, 409), db, <<c1>>)
        ELSE LET arg == CreateContactData(data)
                 newContact == contactRepo_create(db, clock, arg, FaultAt(f, 2))
             IN  UC(newContact.res, newContact.db,
                    <<c1, Call("contactRepo.create", <<arg>>)>>)

CreateContact_execute(db, clock, data, f) ==
    CreateContact_resume(db, clock, data,
                         contactRepo_findByEmail(db, data.email, FaultAt(f, 1)), f)

GetContact_execute(db, id, f) ==
    LET c1 == Call("contactRepo.findById", <<id>>)
        contact == contactRepo_findById(db, id, FaultAt(f, 1))
    IN  IF Threw(contact.res) THEN UC(contact.res, db, <<c1>>)
        ELSE IF contact.res.value = {}
        THEN UC(AppError("Contact with ID ${} not found.", <<id>>, 404), db, <<c1>>)
        ELSE UC(Ok(TheOne(contact.res.value)), db, <<c1>>)

\* UpdateContact without the findById guard.
UpdateContact_execute_NoLookup(db, id, data, f) ==
    LET updated == contactRepo_update(db, id, data, FaultAt(f, 1))
        calls == <<Call("contactRepo.update", <<id, data>>)>>
    IN  IF Threw(updated.res)
        THEN UC(AppError("Error updating contact with ID ${}", <<id>>, 500),
                updated.db, calls)
        ELSE UC(updated.res, updated.db, calls)

\* UpdateContact that saves the contact it read with the given fields changed:
\* what another execution wrote since the read is lost.
UpdateContact_resume_FromSnapshot(db, id, data, existing, f) ==
    LET c1 == Call("contactRepo.findById", <<id>>)
    IN  IF Threw(existing.res) THEN UC(existing.res, db, <<c1>>)
        ELSE IF existing.res.value = {}
        THEN UC(AppError("Contact with ID ${} not found for update.", <<id>>, 404),
                db, <<c1>>)
        ELSE LET read == TheOne(existing.res.value)
                 row == ContactApply([id |-> read.id, name |-> read.name,
                                      email |-> read.email, phone |-> Opt(read, "phone"),
                                      company |-> Opt(read, "company"),
                                      notes |-> Opt(read, "notes"),
                                      status |-> read.status,
                                      createdAt |-> read.createdAt.ms], data)
             IN  UC(Ok(Contact_fromDB(row)),
                    [db EXCEPT !.contacts = {r \in @ : r.id # id} \cup {row}],
                    <<c1, Call("contactRepo.update", <<id, data>>)>>)

\* UpdateContact.execute from the point where findById has settled.
UpdateContact_resume(db, id, data, existing, f) ==
    LET c1 == Call("contactRepo.findById", <<id>>)
    IN  IF Threw(existing.res) THEN UC(existing.res, db, <<c1>>)
        ELSE IF existing.res.value = {}
        THEN UC(AppError("Contact with ID ${} not found for update.", <<id>>, 404),
                db, <<c1>>)
        ELSE LET updated == contactRepo_update(db, id, data, FaultAt(f, 2))
                 calls == <<c1, Call("contactRepo.update", <<id, data>>)>>
             IN  IF Threw(updated.res)
                 THEN UC(AppError("Error updating contact with ID ${}", <<id>>, 500),
                         updated.db, calls)
                 ELSE UC(updated.res, updated.db, calls)

UpdateContact_execute(db, id, data, f) ==
    UpdateContact_resume(db, id, data, contactRepo_findById(db, id, FaultAt(f, 1)), f)

\* DeleteContact that treats a missing contact as already deleted.
DeleteContact_execute_Idempotent(db, id, f) ==
    LET c1 == Call("contactRepo.findById", <<id>>)
        existing == contactRepo_findById(db, id, FaultAt(f, 1))
    IN  IF Threw(existing.res) THEN UC(existing.res, db, <<c1>>)
        ELSE IF existing.res.value = {} THEN UC(Ok({}), db, <<c1>>)
        ELSE LET deleted == contactRepo_delete(db, id, FaultAt(f, 2))
             IN  UC(deleted.res, deleted.db,
                    <<c1, Call("contactRepo.delete", <<id>>)>>)

\* DeleteContact.execute from the point where findById has settled.
DeleteContact_resume(db, id, existing, f) ==
    LET c1 == Call("contactRepo.findById", <<id>>)
    IN  IF Threw(existing.res) THEN UC(existing.res, db, <<c1>>)
        ELSE IF existing.res.value = {}
        THEN UC(AppError("Unable to delete contact. No contact found with ID ${}.",
                         <<id>>, 404), db, <<c1>>)
        ELSE LET deleted == contactRepo_delete(db, id, FaultAt(f, 2))
             IN  UC(deleted.res, deleted.db,
                    <<c1, Call("contactRepo.delete", <<id>>)>>)

DeleteContact_execute(db, id, f) ==
    DeleteContact_resume(db, id, contactRepo_findById(db, id, FaultAt(f, 1)), f)

\* PromoteContact without the status guard.
PromoteContact_execute_AnyStatus(db, contactId, f) ==
    LET c1 == Call("contactRepo.findById", <<contactId>>)
        contact == contactRepo_findById(db, contactId, FaultAt(f, 1))
    IN  IF Threw(contact.res) THEN UC(contact.res, db, <<c1>>)
        ELSE IF contact.res.value = {}
        THEN UC(AppError("Contact with ID ${} not found.", <<contactId>>, 404),
                db, <<c1>>)
        ELSE LET data == [status |-> "CLIENT"]
                 updated == contactRepo_update(db, contactId, data, FaultAt(f, 2))
                 calls == <<c1, Call("contactRepo.update", <<contactId, data>>)>>
             IN  IF Threw(updated.res)
                 THEN UC(AppError("Error promoting contact with ID ${} to CLIENT",
                                  <<contactId>>, 500), updated.db, calls)
                 ELSE UC(Ok({}), updated.db, calls)

\* PromoteContact.execute from the point where findById has settled.
PromoteContact_resume(db, contactId, contact, f) ==
    LET c1 == Call("contactRepo.findById", <<contactId>>)
    IN  IF Threw(contact.res) THEN UC(contact.res, db, <<c1>>)
        ELSE IF contact.res.value = {}
        THEN UC(AppError("Contact with ID ${} not found.", <<contactId>>, 404),
                db, <<c1>>)
        ELSE IF TheOne(contact.res.value).status # "PROSPECT"
        THEN UC(AppError("Only prospects can be promoted. Current status: ${}",
                         <<TheOne(contact.res.value).status>>, 400), db, <<c1>>)
        ELSE LET data == [status |-> "CLIENT"]
                 updated == contactRepo_update(db, contactId, data, FaultAt(f, 2))
                 calls == <<c1, Call("contactRepo.update", <<contactId, data>>)>>
             IN  IF Threw(updated.res)
                 THEN UC(AppError("Error promoting contact with ID ${} to CLIENT",
                                  <<contactId>>, 500), updated.db, calls)
                 ELSE UC(Ok({}), updated.db, calls)

PromoteContact_execute(db, contactId, f) ==
    PromoteContact_resume(db, contactId,
                          contactRepo_findById(db, contactId, FaultAt(f, 1)), f)

\* How a repository call made inside Promise.all may end.
Outcomes == {"none", "prisma", "raw"}

\* Waits for the promise that settles first only: a rejection of the other
\* one goes unnoticed and its place in the result is empty.
PromiseAll_FirstSettled(a, b, first) ==
    LET x == IF first = 1 THEN a ELSE b
    IN  IF Threw(x) THEN x
        ELSE Ok(<<IF Threw(a) THEN {} ELSE a.value, IF Threw(b) THEN {} ELSE b.value>>)

\* await Promise.all([a, b]) where `first` is the promise that settles first:
\* rejects with the rejection that comes first, resolves with both values
\* once both have resolved.
PromiseAll(a, b, first) ==
    LET x == IF first = 1 THEN a ELSE b
        y == IF first = 1 THEN b ELSE a
    IN  IF Threw(x) THEN x
        ELSE IF Threw(y) THEN y
        ELSE Ok(<<a.value, b.value>>)

\* Math.max(1, params.page ?? 1), Math.max(1, params.limit ?? 10)
ListContacts_page(params) ==
    Max(1, IF "page" \in DOMAIN params THEN params.page ELSE 1)

ListContacts_limit(params) ==
    Max(1, IF "limit" \in DOMAIN params THEN params.limit ELSE 10)

\* ListContacts.execute with the outcome of each of its two queries and the one
\* that settles first: both are issued, then awaited together.
ListContacts_settle(db, params, ord, fa, fb, first) ==
    LET page == ListContacts_page(params)
        limit == ListContacts_limit(params)
        skip == (page - 1) * limit
        data == contactRepo_findMany(db, skip, limit, ord, fa)
        totalCount == contactRepo_count(db, fb)
        calls == <<Call("contactRepo.findMany", <<skip, limit>>),
                   Call("contactRepo.count", <<>>)>>
        both == PromiseAll(data.res, totalCount.res, first)
    IN  IF Threw(both)
        THEN UC(AppError("Error retrieving contacts.", <<>>, 500), db, calls)
        ELSE UC(Ok([data |-> both.value[1], totalCount |-> both.value[2]]), db, calls)

\* ListContacts.execute from the point where the query that reached the
\* database first (1: the page, 2: the count) has been answered with
\* `settled`; the other query is answered from the table as it is now.
ListContacts_resume(db, params, ord, settled, first) ==
    LET page == ListContacts_page(params)
        limit == ListContacts_limit(params)
        skip == (page - 1) * limit
        data == IF first = 1 THEN settled
                ELSE contactRepo_findMany(db, skip, limit, ord, "none")
        totalCount == IF first = 2 THEN settled ELSE contactRepo_count(db, "none")
        calls == <<Call("contactRepo.findMany", <<skip, limit>>),
                   Call("contactRepo.count", <<>>)>>
        both == PromiseAll(data.res, totalCount.res, first)
    IN  IF Threw(both)
        THEN UC(AppError("Error retrieving contacts.", <<>>, 500), db, calls)
        ELSE UC(Ok([data |-> both.value[1], totalCount |-> both.value[2]]), db, calls)

ListContacts_execute(db, params, ord, f) ==
    ListContacts_settle(db, params, ord, FaultAt(f, 1), FaultAt(f, 2), 1)

\* ------------------------------------------------------------ Project entity

ProjectNullable == {"description", "amount", "dueDate"}

\* Project.fromDB: NULL columns become undefined, dates ISO strings; no query
\* of projectRepo joins the contact, so contactName is the fallback.
Project_fromDB(row) ==
    [k \in {"id", "title", "status", "contactId", "createdAt", "contactName"}
           \cup {n \in ProjectNullable : row[n] # {}} |->
        CASE k = "createdAt" -> toISOString(row.createdAt)
          [] k = "contactName" -> "Unknown Contact"
          [] k = "dueDate" -> toISOString(TheOne(row.dueDate))
          [] k \in ProjectNullable -> TheOne(row[k])
          [] OTHER -> row[k]]

\* start that begins any project that is not finished.
Project_start_Unfinished(project) ==
    IF project.status \notin {"COMPLETED", "CANCELLED"}
    THEN [project EXCEPT !.status = "IN_PROGRESS"]
    ELSE project

\* Project.start / complete / cancel: the entity after the call.
Project_start(project) ==
    IF project.status = "PENDING"
    THEN [project EXCEPT !.status = "IN_PROGRESS"]
    ELSE project

Project_complete(project) ==
    IF project.status = "IN_PROGRESS"
    THEN [project EXCEPT !.status = "COMPLETED"]
    ELSE project

\* cancel without its status guard.
Project_cancel_Always(project) == [project EXCEPT !.status = "CANCELLED"]

Project_cancel(project) ==
    IF project.status = "PENDING" \/ project.status = "IN_PROGRESS"
    THEN [project EXCEPT !.status = "CANCELLED"]
    ELSE project

\* Project.update: the five mutable fields, each written when it is given.
Project_update(project, data) ==
    LET given == DOMAIN data
                   \cap {"title", "description", "amount", "dueDate", "status"}
    IN  [k \in DOMAIN project \cup given |->
            IF k \in given THEN data[k] ELSE project[k]]

\* --------------------------------------------- projectRepo (Prisma adapter)

\* data.dueDate ? new Date(data.dueDate) : null
CreateDueDate(data) ==
    IF "dueDate" \in DOMAIN data /\ DateTruthy(data.dueDate)
    THEN DateGetTime(data.dueDate) ELSE {}

\* Prisma rejects an Invalid Date.
CreateDueDateInvalid(data) ==
    /\ "dueDate" \in DOMAIN data
    /\ DateTruthy(data.dueDate)
    /\ DateGetTime(data.dueDate) = {}

ProjectRowOf(db, clock, data) ==
    [id |-> db.nextId,
     title |-> data.title,
     description |-> Opt(data, "description"),
     amount |-> Opt(data, "amount"),
     dueDate |-> CreateDueDate(data),
     status |-> data.status,
     contactId |-> data.contactId,
     createdAt |-> clock]

\* A Project table without the foreign key.
ContactExists_NoForeignKey(db, contactId) == TRUE

\* The foreign key Project_contactId_fkey.
ContactExists(db, contactId) == \E c \in db.contacts : c.id = contactId

projectRepo_create(db, clock, data, flt) ==
    LET wrapped == AppError("Error creating project in the database", <<>>, 500)
        row == ProjectRowOf(db, clock, data)
    IN  PortCall(flt, db,
            IF CreateDueDateInvalid(data) \/ ~ContactExists(db, data.contactId)
            THEN [res |-> wrapped, db |-> db]
            ELSE [res |-> Ok(Project_fromDB(row)),
                  db |-> [db EXCEPT !.projects = @ \cup {row},
                                    !.nextId = @ + 1]],
            wrapped)

projectRepo_findById(db, id, flt) ==
    PortCall(flt, db,
        [res |-> Ok({Project_fromDB(p) : p \in {r \in db.projects : r.id = id}}),
         db |-> db],
        AppError("Error fetching project by ID with id ${} from the database",
                 <<id>>, 500))

\* records.map(Project.fromDB)
Projects_fromDB(rows) == [i \in 1..Len(rows) |-> Project_fromDB(rows[i])]

projectRepo_findMany(db, skip, take, ord, flt) ==
    PortCall(flt, db,
        [res |-> Ok(Projects_fromDB(SkipTake(ord, skip, take))), db |-> db],
        AppError("Error fetching projects list from the database", <<>>, 500))

\* A where clause that matches every project.
HasContactId_Any(contactId, row) == TRUE

HasContactId(contactId, row) == row.contactId = contactId

\* where: { contactId }, orderBy, skip, take
projectRepo_findByContactId(db, contactId, skip, take, ord, flt) ==
    LET Mine(row) == HasContactId(contactId, row)
    IN  PortCall(flt, db,
            [res |-> Ok(Projects_fromDB(SkipTake(SelectSeq(ord, Mine), skip, take))),
             db |-> db],
            AppError("Error fetching projects for the given contact with ${} from the database",
                     <<contactId>>, 500))

\* An update that replaces the row: a nullable column that is not given
\* becomes NULL.
ProjectApply_Replacing(row, data) ==
    [k \in DOMAIN row |->
        IF k \notin DOMAIN data
        THEN (IF k \in ProjectNullable THEN {} ELSE row[k])
        ELSE IF k = "dueDate" THEN DateGetTime(data.dueDate)
        ELSE IF k \in ProjectNullable THEN {data[k]} ELSE data[k]]

\* prisma.project.update: only the fields given are written; a dueDate
\* string is stored as the instant it denotes.
ProjectApply(row, data) ==
    [k \in DOMAIN row |->
        IF k \notin DOMAIN data THEN row[k]
        ELSE IF k = "dueDate" THEN DateGetTime(data.dueDate)
        ELSE IF k \in ProjectNullable THEN {data[k]} ELSE data[k]]

projectRepo_update(db, id, data, flt) ==
    LET wrapped == AppError("Error updating project with id ${} in the database",
                            <<id>>, 500)
        found == {r \in db.projects : r.id = id}
    IN  PortCall(flt, db,
            IF found = {} THEN [res |-> wrapped, db |-> db]
            ELSE LET row == ProjectApply(TheOne(found), data)
                 IN  IF \/ ("dueDate" \in DOMAIN data /\ DateGetTime(data.dueDate) = {})
                        \/ ~ContactExists(db, row.contactId)
                     THEN [res |-> wrapped, db |-> db]
                     ELSE [res |-> Ok(Project_fromDB(row)),
                           db |-> [db EXCEPT !.projects = (@ \ found) \cup {row}]],
            wrapped)

\* A delete that succeeds when the row is not there.
projectRepo_delete_IfExists(db, id, flt) ==
    PortCall(flt, db,
        [res |-> Ok({}), db |-> [db EXCEPT !.projects = {r \in @ : r.id # id}]],
        AppError("Error deleting project  with id ${} from the database",
                 <<id>>, 500))

projectRepo_delete(db, id, flt) ==
    LET wrapped == AppError("Error deleting project  with id ${} from the database",
                            <<id>>, 500)
        found == {r \in db.projects : r.id = id}
    IN  PortCall(flt, db,
            IF found = {} THEN [res |-> wrapped, db |-> db]
            ELSE [res |-> Ok({}), db |-> [db EXCEPT !.projects = @ \ found]],
            wrapped)

projectRepo_count(db, flt) ==
    PortCall(flt, db,
        [res |-> Ok(Cardinality(db.projects)), db |-> db],
        AppError("Error counting projects in the database", <<>>, 500))

projectRepo_countByContactId(db, contactId, flt) ==
    PortCall(flt, db,
        [res |-> Ok(Cardinality({p \in db.projects : HasContactId(contactId, p)})),
         db |-> db],
        AppError("Error counting projects for the given contact with ID ${}",
                 <<contactId>>, 500))

\* -------------------------------------------------------- project use cases

\* isFutureDate with >= in place of >.
isFutureDate_Inclusive(date, clock) == \E t \in DateGetTime(date) : t >= clock

\* new Date(date).getTime() > Date.now(); false for NaN.
isFutureDate(date, clock) == \E t \in DateGetTime(date) : t > clock

CreateProject_execute(db, clock, data, f) ==
    IF "dueDate" \in DOMAIN data /\ DateTruthy(data.dueDate)
       /\ ~isFutureDate(data.dueDate, clock)
    THEN UC(AppError("Invalid due date: must be a future date, received ${}",
                     <<data.dueDate>>, 400), db, <<>>)
    ELSE LET newProject == projectRepo_create(db, clock, data, FaultAt(f, 1))
         IN  UC(newProject.res, newProject.db,
                <<Call("projectRepo.create", <<data>>)>>)

GetProject_execute(db, id, f) ==
    LET c1 == Call("projectRepo.findById", <<id>>)
        project == projectRepo_findById(db, id, FaultAt(f, 1))
    IN  IF Threw(project.res) THEN UC(project.res, db, <<c1>>)
        ELSE IF project.res.value = {}
        THEN UC(AppError("Project not found with ID ${}", <<id>>, 404), db, <<c1>>)
        ELSE UC(Ok(TheOne(project.res.value)), db, <<c1>>)

\* UpdateProject that also promotes the owning contact once the project is
\* under way.
UpdateProject_execute_Promoting(db, id, data, f) ==
    LET c1 == Call("projectRepo.findById", <<id>>)
        existing == projectRepo_findById(db, id, FaultAt(f, 1))
    IN  IF Threw(existing.res) THEN UC(existing.res, db, <<c1>>)
        ELSE IF existing.res.value = {}
        THEN UC(AppError("Project with ID ${} not found for update.", <<id>>, 404),
                db, <<c1>>)
        ELSE LET updated == projectRepo_update(db, id, data, FaultAt(f, 2))
                 calls == <<c1, Call("projectRepo.update", <<id, data>>)>>
             IN  IF Threw(updated.res)
                 THEN UC(AppError("Error updating project with ID ${}", <<id>>, 500),
                         updated.db, calls)
                 ELSE IF updated.res.value.status \in {"ACCEPTED", "IN_PROGRESS"}
                 THEN LET owner == updated.res.value.contactId
                          promoted == contactRepo_update(updated.db, owner,
                                                         [status |-> "CLIENT"], "none")
                      IN  UC(updated.res, promoted.db,
                             calls \o <<Call("contactRepo.update",
                                             <<owner, [status |-> "CLIENT"]>>)>>)
                 ELSE UC(updated.res, updated.db, calls)

\* UpdateProject.execute from the point where findById has settled.
UpdateProject_resume(db, id, data, existing, f) ==
    LET c1 == Call("projectRepo.findById", <<id>>)
    IN  IF Threw(existing.res) THEN UC(existing.res, db, <<c1>>)
        ELSE IF existing.res.value = {}
        THEN UC(AppError("Project with ID ${} not found for update.", <<id>>, 404),
                db, <<c1>>)
        ELSE LET updated == projectRepo_update(db, id, data, FaultAt(f, 2))
                 calls == <<c1, Call("projectRepo.update", <<id, data>>)>>
             IN  IF Threw(updated.res)
                 THEN UC(AppError("Error updating project with ID ${}", <<id>>, 500),
                         updated.db, calls)
                 ELSE UC(updated.res, updated.db, calls)

UpdateProject_execute(db, id, data, f) ==
    UpdateProject_resume(db, id, data, projectRepo_findById(db, id, FaultAt(f, 1)), f)

\* DeleteProject.execute from the point where findById has settled.
DeleteProject_resume(db, id, existing, f) ==
    LET c1 == Call("projectRepo.findById", <<id>>)
    IN  IF Threw(existing.res) THEN UC(existing.res, db, <<c1>>)
        ELSE IF existing.res.value = {}
        THEN UC(AppError("Project not found. Unable to delete project with ID ${}.",
                         <<id>>, 404), db, <<c1>>)
        ELSE LET deleted == projectRepo_delete(db, id, FaultAt(f, 2))
                 calls == <<c1, Call("projectRepo.delete", <<id>>)>>
             IN  IF Threw(deleted.res)
                 THEN UC(AppError("Unexpected error while deleting project with ID ${}.",
                                  <<id>>, 500), deleted.db, calls)
                 ELSE UC(Ok({}), deleted.db, calls)

DeleteProject_execute(db, id, f) ==
    DeleteProject_resume(db, id, projectRepo_findById(db, id, FaultAt(f, 1)), f)

ListProjects_page(params) ==
    Max(1, IF "page" \in DOMAIN params THEN params.page ELSE 1)

\* ListProjects taking the limit as given.
ListProjects_limit_AsGiven(params) ==
    IF "limit" \in DOMAIN params THEN params.limit ELSE 10

ListProjects_limit(params) ==
    Max(1, IF "limit" \in DOMAIN params THEN params.limit ELSE 10)

\* ListProjects.execute with the outcome of each of its two queries and the one
\* that settles first: both are issued, then awaited together.
ListProjects_settle(db, params, ord, fa, fb, first) ==
    LET page == ListProjects_page(params)
        limit == ListProjects_limit(params)
        skip == (page - 1) * limit
        data == projectRepo_findMany(db, skip, limit, ord, fa)
        totalCount == projectRepo_count(db, fb)
        calls == <<Call("projectRepo.findMany", <<skip, limit>>),
                   Call("projectRepo.count", <<>>)>>
        both == PromiseAll(data.res, totalCount.res, first)
    IN  IF Threw(both)
        THEN UC(AppError("Error retrieving projects.", <<>>, 500), db, calls)
        ELSE UC(Ok([data |-> both.value[1], totalCount |-> both.value[2]]), db, calls)

\* ListProjects.execute from the point where the query that reached the
\* database first has been answered with `settled`.
ListProjects_resume(db, params, ord, settled, first) ==
    LET page == ListProjects_page(params)
        limit == ListProjects_limit(params)
        skip == (page - 1) * limit
        data == IF first = 1 THEN settled
                ELSE projectRepo_findMany(db, skip, limit, ord, "none")
        totalCount == IF first = 2 THEN settled ELSE projectRepo_count(db, "none")
        calls == <<Call("projectRepo.findMany", <<skip, limit>>),
                   Call("projectRepo.count", <<>>)>>
        both == PromiseAll(data.res, totalCount.res, first)
    IN  IF Threw(both)
        THEN UC(AppError("Error retrieving projects.", <<>>, 500), db, calls)
        ELSE UC(Ok([data |-> both.value[1], totalCount |-> both.value[2]]), db, calls)

ListProjects_execute(db, params, ord, f) ==
    ListProjects_settle(db, params, ord, FaultAt(f, 1), FaultAt(f, 2), 1)

ListProjectsByContact_page(params) ==
    Max(1, IF "page" \in DOMAIN params THEN params.page ELSE 1)

ListProjectsByContact_limit(params) ==
    Max(1, IF "limit" \in DOMAIN params THEN params.limit ELSE 10)

\* ListProjectsByContact.execute with the outcome of each of its two queries and the one
\* that settles first: both are issued, then awaited together.
ListProjectsByContact_settle(db, params, ord, fa, fb, first) ==
    LET contactId == params.contactId
        page == ListProjectsByContact_page(params)
        limit == ListProjectsByContact_limit(params)
        skip == (page - 1) * limit
        data == projectRepo_findByContactId(db, contactId, skip, limit, ord,
                                            fa)
        totalCount == projectRepo_countByContactId(db, contactId, fb)
        calls == <<Call("projectRepo.findByContactId", <<contactId, skip, limit>>),
                   Call("projectRepo.countByContactId", <<contactId>>)>>
        both == PromiseAll(data.res, totalCount.res, first)
    IN  IF Threw(both)
        THEN UC(AppError("Error retrieving projects for the given contact.", <<>>, 500), db, calls)
        ELSE UC(Ok([data |-> both.value[1], totalCount |-> both.value[2]]), db, calls)

\* ListProjectsByContact.execute from the point where the query that reached
\* the database first has been answered with `settled`.
ListProjectsByContact_resume(db, params, ord, settled, first) ==
    LET contactId == params.contactId
        page == ListProjectsByContact_page(params)
        limit == ListProjectsByContact_limit(params)
        skip == (page - 1) * limit
        data == IF first = 1 THEN settled
                ELSE projectRepo_findByContactId(db, contactId, skip, limit, ord, "none")
        totalCount == IF first = 2 THEN settled
                      ELSE projectRepo_countByContactId(db, contactId, "none")
        calls == <<Call("projectRepo.findByContactId", <<contactId, skip, limit>>),
                   Call("projectRepo.countByContactId", <<contactId>>)>>
        both == PromiseAll(data.res, totalCount.res, first)
    IN  IF Threw(both)
        THEN UC(AppError("Error retrieving projects for the given contact.", <<>>, 500),
                db, calls)
        ELSE UC(Ok([data |-> both.value[1], totalCount |-> both.value[2]]), db, calls)

ListProjectsByContact_execute(db, params, ord, f) ==
    ListProjectsByContact_settle(db, params, ord, FaultAt(f, 1), FaultAt(f, 2), 1)

\* ------------------------------------------------------ validation schemas

\* The fields of two records with distinct field names, in one record.
Merge(a, b) ==
    [k \in DOMAIN a \cup DOMAIN b |-> IF k \in DOMAIN a THEN a[k] ELSE b[k]]

\* A record without one field: const { k, ...rest } = rec.
Omit(rec, k) == [n \in DOMAIN rec \ {k} |-> rec[n]]

ProjectFields == {"title", "description", "amount", "dueDate", "status", "contactId"}

\* The value of a JSON boolean, of a JSON string, as a body carries it.
JsonTrue == "true"

JsonFalse == "false"

JsonStringTrue == "'true'"

\* One field of projectBaseSchema accepts the value.
FieldOk(k, v, clock) ==
    CASE k = "title" -> v # ""
      [] k = "description" -> Len(v) <= 1000
      [] k = "amount" -> v > 0
      [] k = "dueDate" ->
            \/ ~DateTruthy(v)
            \/ \E t \in DateGetTime(v) : t >= StartOfDay(clock)
      [] k = "status" -> v \in ProjectStatus
      [] k = "contactId" -> IsCuid(v)
      [] OTHER -> TRUE

\* safeParse: whether it succeeded, and on success the fields the schema
\* knows; other keys are stripped.
Parsed(ok, body, keys) ==
    [success |-> ok,
     data |-> IF ok THEN [k \in DOMAIN body \cap keys |-> body[k]] ELSE <<>>]

projectBaseSchema_ok(body, required, clock) ==
    /\ required \subseteq DOMAIN body
    /\ \A k \in DOMAIN body \cap ProjectFields : FieldOk(k, body[k], clock)

\* COMPLETED and CANCELLED require a due date.
projectFormSchema_safeParse(body, clock) ==
    Parsed(/\ projectBaseSchema_ok(body, {"title", "status", "contactId"}, clock)
           /\ \/ body.status \notin {"COMPLETED", "CANCELLED"}
              \/ ("dueDate" \in DOMAIN body /\ DateTruthy(body.dueDate)),
           body, ProjectFields)

\* Every field optional, plus promoteContact: a boolean when given.
projectUpdateSchema_safeParse(body, clock) ==
    Parsed(/\ projectBaseSchema_ok(body, {}, clock)
           /\ "promoteContact" \in DOMAIN body =>
                body.promoteContact \in {JsonTrue, JsonFalse},
           body, ProjectFields \cup {"promoteContact"})

\* ------------------------------------------------------- query parameters

\* A JavaScript number: NaN, or a value held in tenths.
NaN == [nan |-> TRUE, tenths |-> 0]

Num(tenths) == [nan |-> FALSE, tenths |-> tenths]

\* Strings a query parameter may hold: a decimal numeral, maybe with spaces
\* around it, blank text, and text that is no numeral.
Numeral(tenths, padded) == [kind |-> "numeral", tenths |-> tenths, padded |-> padded]

BlankString(length) == [kind |-> "blank", tenths |-> length, padded |-> FALSE]

TextString == [kind |-> "text", tenths |-> 0, padded |-> FALSE]

\* Number(string): spaces around a numeral are ignored, blank text is 0, any
\* other text is NaN.
Number(str) ==
    CASE str.kind = "numeral" -> Num(str.tenths)
      [] str.kind = "blank" -> Num(0)
      [] OTHER -> NaN

\* Math.max(a, b): NaN if either is NaN.
MathMax(a, b) ==
    IF a.nan \/ b.nan THEN NaN ELSE Num(Max(a.tenths, b.tenths))

\* URLSearchParams.get: the value of the key, null ({}) when it is absent.
SearchParamsGet(params, key) ==
    IF key \in DOMAIN params THEN {params[key]} ELSE {}

getQueryParamOrDefault(params, key, defaultValue) ==
    LET value == SearchParamsGet(params, key)
    IN  IF value = {} \/ TheOne(value).kind = "blank"
        THEN defaultValue
        ELSE TheOne(value)

parsePaginationParams(searchParams) ==
    LET rawPage == getQueryParamOrDefault(searchParams, "page", Numeral(10, FALSE))
        rawLimit == getQueryParamOrDefault(searchParams, "limit", Numeral(100, FALSE))
        page == MathMax(Num(10), Number(rawPage))
        limit == MathMax(Num(10), Number(rawLimit))
    IN  [page |-> page, limit |-> limit]

\* ------------------------------------------------------------- API routes

\* validateId passes: the id is a non-blank string.
validateId(id) == id # EmptyId

\* new AppError(message): statusCode defaults to 400.
AppErrorDefault(tpl, args) == AppError(tpl, args, 400)

\* handleError that trusts any thrown value that carries a statusCode.
handleError_ByStatusCode(res) ==
    IF "statusCode" \in DOMAIN res
    THEN [status |-> res.statusCode, json |-> [message |-> res.message]]
    ELSE [status |-> 500,
          json |-> [message |-> [tpl |-> "Internal server error.", args |-> <<>>]]]

\* handleError: the response for a thrown value.
handleError(res) ==
    IF res.threw = "AppError"
    THEN [status |-> res.statusCode, json |-> [message |-> res.message]]
    ELSE [status |-> 500,
          json |-> [message |-> [tpl |-> "Internal server error.", args |-> <<>>]]]

\* Project.toDTO, as NextResponse.json serialises it: the fields that are
\* defined.
Project_toDTO(project) ==
    [k \in DOMAIN project \cap
           {"id", "title", "description", "amount", "dueDate", "status",
            "contactId", "createdAt", "contactName"} |-> project[k]]

\* What one request did: the response, the database after it, the repository
\* calls made, and the use cases executed with the result of each, in order.
Route(res, db, calls, ucs) ==
    [res |-> res, db |-> db, calls |-> calls, ucs |-> ucs]

Step(uc, args, res) == [uc |-> uc, args |-> args, res |-> res]

\* A flag test that takes every truthy value for true.
PromoteFlag_Truthy(body) ==
    "promoteContact" \in DOMAIN body /\ body.promoteContact # JsonFalse

\* promoteContact === true
PromoteFlag(body) ==
    "promoteContact" \in DOMAIN body /\ body.promoteContact = JsonTrue

\* POST /api/projects
POST(db, clock, body) ==
    LET projectData == Omit(body, "promoteContact")
        parsed == projectFormSchema_safeParse(projectData, clock)
    IN  IF ~parsed.success
        THEN Route(handleError(AppError("Invalid project data", <<>>, 400)),
                   db, <<>>, <<>>)
        ELSE
        LET data == parsed.data
            promote == PromoteFlag(body)
        IN  IF promote /\ ~validateId(data.contactId)
            THEN Route(handleError(AppError("Missing or invalid ID", <<>>, 400)),
                       db, <<>>, <<>>)
            ELSE
            LET p == IF promote
                     THEN PromoteContact_execute(db, data.contactId, NoFault)
                     ELSE UC(Ok({}), db, <<>>)
                s1 == IF promote
                      THEN <<Step("PromoteContact", <<data.contactId>>, p.res)>>
                      ELSE <<>>
            IN  IF Threw(p.res)
                THEN Route(handleError(p.res), p.db, p.calls, s1)
                ELSE
                LET c == CreateProject_execute(p.db, clock, data, NoFault)
                    ucs == s1 \o <<Step("CreateProject", <<data>>, c.res)>>
                IN  IF Threw(c.res)
                    THEN Route(handleError(c.res), c.db, p.calls \o c.calls, ucs)
                    ELSE Route([status |-> 201, json |-> Project_toDTO(c.res.value)],
                               c.db, p.calls \o c.calls, ucs)

\* PUT /api/projects/:id
PUT(db, clock, id, body) ==
    IF ~validateId(id)
    THEN Route(handleError(AppError("Missing or invalid ID", <<>>, 400)),
               db, <<>>, <<>>)
    ELSE
    LET parsed == projectUpdateSchema_safeParse(body, clock)
    IN  IF ~parsed.success
        THEN Route(handleError(AppError("Invalid project update data", <<>>, 400)),
                   db, <<>>, <<>>)
        ELSE
        LET data == Omit(parsed.data, "promoteContact")
            promote == PromoteFlag(parsed.data)
            contactId == IF "contactId" \in DOMAIN data THEN data.contactId
                         ELSE EmptyId
        IN  IF promote /\ ~validateId(contactId)
            THEN Route(handleError(AppError("Missing or invalid ID", <<>>, 400)),
                       db, <<>>, <<>>)
            ELSE
            LET p == IF promote
                     THEN PromoteContact_execute(db, contactId, NoFault)
                     ELSE UC(Ok({}), db, <<>>)
                s1 == IF promote
                      THEN <<Step("PromoteContact", <<contactId>>, p.res)>>
                      ELSE <<>>
            IN  IF Threw(p.res)
                THEN Route(handleError(p.res), p.db, p.calls, s1)
                ELSE
                LET u == UpdateProject_execute(p.db, id, data, NoFault)
                    ucs == s1 \o <<Step("UpdateProject", <<id, data>>, u.res)>>
                IN  IF Threw(u.res)
                    THEN Route(handleError(u.res), u.db, p.calls \o u.calls, ucs)
                    ELSE Route([status |-> 200, json |-> Project_toDTO(u.res.value)],
                               u.db, p.calls \o u.calls, ucs)

\* ------------------------------------------------------------------ inputs

ContactCreateInputs ==
    {[name |-> "Jane Doe", email |-> "jane@x.com"],
     [name |-> "Jane Doe", email |-> "jane@x.com", status |-> "PROSPECT"],
     [name |-> "John Doe", email |-> "john@example.com", phone |-> "0123456789",
      company |-> "Example Inc", notes |-> "Important contact", status |-> "CLIENT"]}

ContactUpdateInputs ==
    {[name |-> "New Name"],
     [email |-> "john@example.com"]}

\* Due dates around the clock's range, one that does not parse, the empty one.
DueDateInputs ==
    {toISOString(t) : t \in 0..(MaxTime + 1)} \cup {InvalidDateString, EmptyDateString}

\* Create requests for every status and contact id given, without a due date
\* and with each due date given.
ProjectCreates(statuses, owners, dues) ==
    {[title |-> "Site redesign", status |-> st, contactId |-> c] :
        st \in statuses, c \in owners}
    \cup {[title |-> "Site redesign", status |-> st, contactId |-> c,
           dueDate |-> d] : st \in statuses, c \in owners, d \in dues}

ProjectCreateInputs ==
    ProjectCreates({"PENDING"}, 1..MaxIds, {toISOString(0), toISOString(1)})
    \cup ProjectCreates({"ACCEPTED", "IN_PROGRESS"}, 1..MaxIds, {})

ProjectUpdateInputs ==
    {[title |-> "x"], [status |-> "IN_PROGRESS"]}

\* Updates that hand the project to another contact, stored or not.
ProjectOwnerUpdates ==
    {[contactId |-> c] : c \in 1..MaxIds}

\* page and limit of a list request: absent, negative, zero, positive.
PageInputs ==
    {[page |-> p] : p \in (-1)..MaxPage} \cup {<<>>}

LimitInputs ==
    {[limit |-> l] : l \in (-1)..MaxLimit} \cup {<<>>}

ListInputs == {Merge(p, l) : p \in PageInputs, l \in LimitInputs}

\* promoteContact of a request body: absent, true, false, the string "true".
FlagInputs ==
    {<<>>} \cup {[promoteContact |-> v] : v \in {JsonTrue, JsonFalse, JsonStringTrue}}

\* Bodies of POST /api/projects: with a past and with a future due date,
\* without one, with an empty title, without a contact id.
PostBodies ==
    {Merge(b, g) :
        b \in ProjectCreates({"PENDING"}, 1..MaxIds,
                             {toISOString(0), toISOString(MaxTime + 1)})
               \cup {[title |-> "", status |-> "PENDING", contactId |-> 1],
                     [title |-> "Site redesign", status |-> "PENDING"]},
        g \in FlagInputs}

\* Bodies of PUT /api/projects/:id: with and without a contact id, with an
\* empty title.
PutBodies ==
    {Merge(b, g) :
        b \in {[title |-> "x"], [title |-> ""]}
               \cup {[status |-> "IN_PROGRESS", contactId |-> c] : c \in 1..MaxIds},
        g \in FlagInputs}

ListByContactInputs ==
    {Merge([contactId |-> c], q) : c \in 1..(MaxOwners + 1), q \in ListInputs}

\* Project entities of every status, with and without each optional field.
ProjectEntities ==
    {Merge([id |-> 1, title |-> "Site redesign", status |-> st, contactId |-> 2,
            createdAt |-> toISOString(0), contactName |-> "Unknown Contact"],
           Merge(d, Merge(a, due))) :
        st \in ProjectStatus,
        d \in {<<>>, [description |-> "New landing page"]},
        a \in {<<>>, [amount |-> 1500]},
        due \in {<<>>, [dueDate |-> toISOString(MaxTime + 1)]}}

FaultContactInputs ==
    {[name |-> "Jane Doe", email |-> "jane@x.com"],
     [name |-> "John Doe", email |-> "john@example.com"]}

FaultProjectInputs == ProjectCreates({"PENDING"}, 1..MaxIds, {})

FaultListInputs == {<<>>, [page |-> 1, limit |-> 1]}

\* Partial updates of every kind of field: required, nullable, status, unique,
\* date, owner.
ContactFieldUpdates ==
    {[name |-> "New Name"],
     [phone |-> "0123456789", status |-> "CLIENT"],
     [email |-> "john@example.com"]}

ProjectFieldUpdates ==
    {[title |-> "x"],
     [description |-> "d", amount |-> 5],
     [dueDate |-> toISOString(1), status |-> "IN_PROGRESS"],
     [contactId |-> 1]}

\* Values of one query parameter: whole numbers from -1 up, 2.5, a padded
\* numeral, the empty string, spaces, text.
QueryValues ==
    {Numeral(10 * n, FALSE) : n \in (-1)..MaxPage}
    \cup {Numeral(25, FALSE), Numeral(20, TRUE), BlankString(0), BlankString(2),
          TextString}

\* The search parameters of a list request, page and limit given or not.
SearchParamsInputs ==
    {Merge(p, l) : p \in {<<>>} \cup {[page |-> v] : v \in QueryValues},
                   l \in {<<>>} \cup {[limit |-> v] : v \in QueryValues}}

\* The contact that is there before the overlapping executions start.
RaceSetupContacts == {[name |-> "Jane Doe", email |-> "jane@x.com"]}

RaceContactUpdates ==
    {[name |-> "New Name"], [name |-> "Other Name", phone |-> "0123456789"]}

RaceProjectUpdates ==
    {[title |-> "x"], [title |-> "y", status |-> "IN_PROGRESS"]}

\* --------------------------------------------------------------- operations

Procs == 1..MaxProcs

NoneInFlight == [p \in Procs |-> [pc |-> "idle"]]

\* No request is being served.
Idle ==
    [op |-> "idle", input |-> <<>>, fault |-> NoFault, res |-> Ok({}),
     calls |-> <<>>, ucs |-> <<>>, pre |-> [contacts |-> {}, projects |-> {}]]

Snapshot == [contacts |-> contacts, projects |-> projects]

\* No request is being served: requests do not overlap, the next one starts
\* after the result of this one was returned.
Ready == last.op = "idle"

\* One request: an execute call, run to completion on the database.
Ran(op, input, f, r) ==
    /\ contacts' = r.db.contacts
    /\ projects' = r.db.projects
    /\ nextId' = r.db.nextId
    /\ now' = now
    /\ inflight' = inflight
    /\ last' = [op |-> op, input |-> input, fault |-> f, res |-> r.res,
                calls |-> r.calls, ucs |-> <<>>, pre |-> Snapshot]

\* One HTTP request, served to completion.
Served(op, input, r) ==
    /\ contacts' = r.db.contacts
    /\ projects' = r.db.projects
    /\ nextId' = r.db.nextId
    /\ now' = now
    /\ inflight' = inflight
    /\ last' = [op |-> op, input |-> input, fault |-> NoFault, res |-> r.res,
                calls |-> r.calls, ucs |-> r.ucs, pre |-> Snapshot]

\* Ids are handed out up to maxId.
CreateContactOp(inputs, maxId, f) ==
    /\ Ready
    /\ \E data \in inputs :
           LET r == CreateContact_execute(DB, now, data, f)
           IN  /\ r.db.nextId <= maxId + 1
               /\ Ran("CreateContact", [data |-> data], f, r)

GetContactOp(f) ==
    /\ Ready
    /\ \E id \in IdInputs :
           Ran("GetContact", [id |-> id], f, GetContact_execute(DB, id, f))

UpdateContactOp(inputs, f) ==
    /\ Ready
    /\ \E id \in IdInputs, data \in inputs :
           Ran("UpdateContact", [id |-> id, data |-> data], f,
               UpdateContact_execute(DB, id, data, f))

DeleteContactOp(f) ==
    /\ Ready
    /\ \E id \in IdInputs :
           Ran("DeleteContact", [id |-> id], f, DeleteContact_execute(DB, id, f))

PromoteContactOp(f) ==
    /\ Ready
    /\ \E id \in IdInputs :
           Ran("PromoteContact", [id |-> id], f, PromoteContact_execute(DB, id, f))

\* Ids are handed out up to maxId, and the table holds up to maxProjects rows.
CreateProjectOp(inputs, maxId, maxProjects, f) ==
    /\ Ready
    /\ \E data \in inputs :
           LET r == CreateProject_execute(DB, now, data, f)
           IN  /\ r.db.nextId <= maxId + 1
               /\ Cardinality(r.db.projects) <= maxProjects
               /\ Ran("CreateProject", [data |-> data], f, r)

GetProjectOp(f) ==
    /\ Ready
    /\ \E id \in IdInputs :
           Ran("GetProject", [id |-> id], f, GetProject_execute(DB, id, f))

UpdateProjectOp(inputs, f) ==
    /\ Ready
    /\ \E id \in IdInputs, data \in inputs :
           Ran("UpdateProject", [id |-> id, data |-> data], f,
               UpdateProject_execute(DB, id, data, f))

DeleteProjectOp(f) ==
    /\ Ready
    /\ \E id \in IdInputs :
           Ran("DeleteProject", [id |-> id], f, DeleteProject_execute(DB, id, f))

ListContactsOp(inputs, f) ==
    /\ Ready
    /\ \E params \in inputs, ord \in OrdersDesc(contacts) :
           Ran("ListContacts", [params |-> params], f,
               ListContacts_execute(DB, params, ord, f))

ListProjectsOp(inputs, f) ==
    /\ Ready
    /\ \E params \in inputs, ord \in OrdersDesc(projects) :
           Ran("ListProjects", [params |-> params], f,
               ListProjects_execute(DB, params, ord, f))

ListProjectsByContactOp(inputs, f) ==
    /\ Ready
    /\ \E params \in inputs, ord \in OrdersDesc(projects) :
           Ran("ListProjectsByContact", [params |-> params], f,
               ListProjectsByContact_execute(DB, params, ord, f))

\* The input of a list execution whose two queries end as `fa` and `fb`, the
\* one numbered `first` settling first.
Settled(params, fa, fb, first) ==
    [params |-> params, page |-> fa, count |-> fb, first |-> first]

ListContactsSettleOp(inputs) ==
    /\ Ready
    /\ \E params \in inputs, ord \in OrdersDesc(contacts),
          fa \in Outcomes, fb \in Outcomes, first \in 1..2 :
           Ran("ListContacts", Settled(params, fa, fb, first), NoFault,
               ListContacts_settle(DB, params, ord, fa, fb, first))

ListProjectsSettleOp(inputs) ==
    /\ Ready
    /\ \E params \in inputs, ord \in OrdersDesc(projects),
          fa \in Outcomes, fb \in Outcomes, first \in 1..2 :
           Ran("ListProjects", Settled(params, fa, fb, first), NoFault,
               ListProjects_settle(DB, params, ord, fa, fb, first))

ListProjectsByContactSettleOp(inputs) ==
    /\ Ready
    /\ \E params \in inputs, ord \in OrdersDesc(projects),
          fa \in Outcomes, fb \in Outcomes, first \in 1..2 :
           Ran("ListProjectsByContact", Settled(params, fa, fb, first), NoFault,
               ListProjectsByContact_settle(DB, params, ord, fa, fb, first))

POSTOp(bodies, maxId, maxProjects) ==
    /\ Ready
    /\ \E body \in bodies :
           LET r == POST(DB, now, body)
           IN  /\ r.db.nextId <= maxId + 1
               /\ Cardinality(r.db.projects) <= maxProjects
               /\ Served("POST", [body |-> body], r)

PUTOp(bodies) ==
    /\ Ready
    /\ \E id \in IdInputs, body \in bodies :
           Served("PUT", [id |-> id, body |-> body], PUT(DB, now, id, body))

\* A value held in memory: what was called last, on what, and what it left.
Held(op, input, value) ==
    [op |-> op, input |-> input, fault |-> NoFault, res |-> Ok(value),
     calls |-> <<>>, ucs |-> <<>>, pre |-> [contacts |-> {}, projects |-> {}]]

\* The status codes the routes and use cases construct AppError with.
StatusCodes == {400, 404, 409, 500}

ErrorMessages ==
    {[tpl |-> t, args |-> <<id>>] :
        t \in {"Contact with ID ${} not found.", "Project not found with ID ${}",
               "Error updating contact with ID ${}"},
        id \in IdInputs}
    \cup {[tpl |-> t, args |-> <<>>] :
        t \in {"Missing or invalid ID", "Invalid project data",
               "Error retrieving contacts.", "Internal server error."}}

\* What a route's catch block may be handed: application errors, with the
\* status given or the default one, and values that are no AppError, among
\* them an Error that carries a message and a statusCode of its own.
ThrownValues ==
    {AppError(m.tpl, m.args, c) : m \in ErrorMessages, c \in StatusCodes}
    \cup {AppErrorDefault(m.tpl, m.args) : m \in ErrorMessages}
    \cup {[threw |-> k] : k \in {"Error", "TypeError", "string", "undefined"}}
    \cup {[threw |-> "Error", message |-> m, statusCode |-> c] :
             m \in ErrorMessages, c \in {404}}

ThrowOp ==
    /\ last.op = "handleError"
    /\ \E error \in ThrownValues : last' = Held("throw", <<>>, error)
    /\ UNCHANGED <<contacts, projects, nextId, now, inflight>>

HandleErrorOp ==
    /\ last.op = "throw"
    /\ last' = Held("handleError", last.res.value, handleError(last.res.value))
    /\ UNCHANGED <<contacts, projects, nextId, now, inflight>>

RequestOp ==
    /\ last.op = "parsePaginationParams"
    /\ \E searchParams \in SearchParamsInputs :
           last' = Held("request", <<>>, searchParams)
    /\ UNCHANGED <<contacts, projects, nextId, now, inflight>>

ParsePaginationParamsOp ==
    /\ last.op = "request"
    /\ last' = Held("parsePaginationParams", last.res.value,
                    parsePaginationParams(last.res.value))
    /\ UNCHANGED <<contacts, projects, nextId, now, inflight>>

EntityOps == {"new Project", "start", "complete", "cancel"}

StartOp ==
    /\ last.op \in EntityOps
    /\ last' = Held("start", last.res.value, Project_start(last.res.value))
    /\ UNCHANGED <<contacts, projects, nextId, now, inflight>>

CompleteOp ==
    /\ last.op \in EntityOps
    /\ last' = Held("complete", last.res.value, Project_complete(last.res.value))
    /\ UNCHANGED <<contacts, projects, nextId, now, inflight>>

CancelOp ==
    /\ last.op \in EntityOps
    /\ last' = Held("cancel", last.res.value, Project_cancel(last.res.value))
    /\ UNCHANGED <<contacts, projects, nextId, now, inflight>>

\* The result has been returned to the caller.
Respond ==
    /\ last.op # "idle"
    /\ last' = Idle
    /\ UNCHANGED <<contacts, projects, nextId, now, inflight>>

\* Time passes between two requests.
Tick ==
    /\ Ready
    /\ now < MaxTime
    /\ now' = now + 1
    /\ UNCHANGED <<contacts, projects, nextId, last, inflight>>

Init ==
    /\ contacts = {}
    /\ projects = {}
    /\ nextId = 1
    /\ now = 0
    /\ last = Idle
    /\ inflight = NoneInFlight

\* ------------------------------------------------ overlapping executions

\* An execution suspended at its first await, holding what the call returned.
Awaiting(op, input, found) ==
    [pc |-> "awaiting", op |-> op, input |-> input, found |-> found]

\* An execution that has returned or thrown; seq is its place among the
\* executions that finished since the last quiet moment, wrote says whether it
\* changed a table, found is what its first repository call had returned.
Done(op, input, found, r) ==
    [pc |-> "done", op |-> op, input |-> input, found |-> found,
     res |-> r.res, calls |-> r.calls,
     wrote |-> (r.db # DB),
     seq |-> 1 + Cardinality({q \in Procs : inflight[q].pc = "done"})]

\* The free execution slot of lowest number.
FreeProc ==
    {p \in Procs : /\ inflight[p].pc = "idle"
                   /\ \A q \in Procs : q < p => inflight[q].pc # "idle"}

AwaitingOp(op) ==
    {p \in Procs : inflight[p].pc = "awaiting" /\ inflight[p].op = op}

\* The use cases that write one row of a table, and the one that deletes it.
Rivals ==
    {{"DeleteContact", "UpdateContact"}, {"DeleteContact", "PromoteContact"},
     {"DeleteProject", "UpdateProject"}}

\* The executions that overlap are of one use case, or of the deletion and
\* a write of one row, and those that take an id take the same one.
SameTarget(op, input) ==
    \A q \in Procs :
        inflight[q].pc # "idle" =>
            /\ inflight[q].op = op \/ {inflight[q].op, op} \in Rivals
            /\ "id" \in DOMAIN input => inflight[q].input.id = input.id

\* Ids left for the creations that are suspended and one more.
IdsLeft ==
    nextId + Cardinality(AwaitingOp("CreateContact")) <= MaxIds

\* The first repository call of an execution is made; the execution is
\* suspended on it.
Begin(p, op, input, found) ==
    /\ inflight' = [inflight EXCEPT ![p] = Awaiting(op, input, found.res)]
    /\ UNCHANGED <<contacts, projects, nextId, now, last>>

\* An execution runs from its await to its end.
Finish(p, r) ==
    /\ contacts' = r.db.contacts
    /\ projects' = r.db.projects
    /\ nextId' = r.db.nextId
    /\ inflight' = [inflight EXCEPT ![p] = Done(inflight[p].op, inflight[p].input,
                                                  inflight[p].found, r)]
    /\ UNCHANGED <<now, last>>

BeginCreateContact(inputs) ==
    /\ IdsLeft
    /\ \E p \in FreeProc, data \in inputs :
           /\ SameTarget("CreateContact", [data |-> data])
           /\ Begin(p, "CreateContact", [data |-> data],
                    contactRepo_findByEmail(DB, data.email, "none"))

FinishCreateContact ==
    \E p \in AwaitingOp("CreateContact") :
        Finish(p, CreateContact_resume(DB, now, inflight[p].input.data,
                                       [res |-> inflight[p].found, db |-> DB], NoFault))

\* CreateProject makes one repository call: it has no await to be suspended at
\* between two of them.
RunCreateProject(inputs) ==
    /\ IdsLeft
    /\ Cardinality(projects) < MaxProjects
    /\ \E p \in FreeProc, data \in inputs :
           LET r == CreateProject_execute(DB, now, data, NoFault)
           IN  /\ SameTarget("CreateProject", [data |-> data])
               /\ contacts' = r.db.contacts
               /\ projects' = r.db.projects
               /\ nextId' = r.db.nextId
               /\ inflight' = [inflight EXCEPT ![p] =
                                  Done("CreateProject", [data |-> data], r.res, r)]
               /\ UNCHANGED <<now, last>>

BeginUpdateContact(inputs) ==
    \E p \in FreeProc, id \in 1..MaxIds, data \in inputs :
        /\ SameTarget("UpdateContact", [id |-> id, data |-> data])
        /\ Begin(p, "UpdateContact", [id |-> id, data |-> data],
                 contactRepo_findById(DB, id, "none"))

FinishUpdateContact ==
    \E p \in AwaitingOp("UpdateContact") :
        Finish(p, UpdateContact_resume(DB, inflight[p].input.id, inflight[p].input.data,
                                       [res |-> inflight[p].found, db |-> DB], NoFault))

BeginUpdateProject(inputs) ==
    \E p \in FreeProc, id \in 1..MaxIds, data \in inputs :
        /\ SameTarget("UpdateProject", [id |-> id, data |-> data])
        /\ Begin(p, "UpdateProject", [id |-> id, data |-> data],
                 projectRepo_findById(DB, id, "none"))

FinishUpdateProject ==
    \E p \in AwaitingOp("UpdateProject") :
        Finish(p, UpdateProject_resume(DB, inflight[p].input.id, inflight[p].input.data,
                                       [res |-> inflight[p].found, db |-> DB], NoFault))

\* One of the two repository calls of the execution may fail.
BeginDeleteProject(faults) ==
    \E p \in FreeProc, id \in 1..MaxIds, f \in faults :
        /\ SameTarget("DeleteProject", [id |-> id, fault |-> f])
        /\ Begin(p, "DeleteProject", [id |-> id, fault |-> f],
                 projectRepo_findById(DB, id, FaultAt(f, 1)))

FinishDeleteProject ==
    \E p \in AwaitingOp("DeleteProject") :
        Finish(p, DeleteProject_resume(DB, inflight[p].input.id,
                                       [res |-> inflight[p].found, db |-> DB],
                                       inflight[p].input.fault))

BeginPromoteContact ==
    \E p \in FreeProc, id \in 1..MaxIds :
        /\ SameTarget("PromoteContact", [id |-> id])
        /\ Begin(p, "PromoteContact", [id |-> id],
                 contactRepo_findById(DB, id, "none"))

FinishPromoteContact ==
    \E p \in AwaitingOp("PromoteContact") :
        Finish(p, PromoteContact_resume(DB, inflight[p].input.id,
                                        [res |-> inflight[p].found, db |-> DB], NoFault))

BeginDeleteContact ==
    \E p \in FreeProc, id \in 1..MaxIds :
        /\ SameTarget("DeleteContact", [id |-> id])
        /\ Begin(p, "DeleteContact", [id |-> id],
                 contactRepo_findById(DB, id, "none"))

FinishDeleteContact ==
    \E p \in AwaitingOp("DeleteContact") :
        Finish(p, DeleteContact_resume(DB, inflight[p].input.id,
                                       [res |-> inflight[p].found, db |-> DB], NoFault))

\* The two queries of a list are issued together and reach the database one
\* after the other, in either order; requests served in between write to it.
\* One list execution is followed at a time.
BeginListContacts(inputs) ==
    /\ Ready
    /\ inflight = NoneInFlight
    /\ \E p \in FreeProc, params \in inputs, ord \in OrdersDesc(contacts), first \in 1..2 :
           Begin(p, "ListContacts", [params |-> params, first |-> first],
                 IF first = 1
                 THEN contactRepo_findMany(DB, (ListContacts_page(params) - 1)
                                                  * ListContacts_limit(params),
                                           ListContacts_limit(params), ord, "none")
                 ELSE contactRepo_count(DB, "none"))

FinishListContacts ==
    /\ Ready
    /\ \E p \in AwaitingOp("ListContacts"), ord \in OrdersDesc(contacts) :
           Finish(p, ListContacts_resume(DB, inflight[p].input.params, ord,
                                         [res |-> inflight[p].found, db |-> DB],
                                         inflight[p].input.first))

BeginListProjects(inputs) ==
    /\ Ready
    /\ inflight = NoneInFlight
    /\ \E p \in FreeProc, params \in inputs, ord \in OrdersDesc(projects), first \in 1..2 :
           Begin(p, "ListProjects", [params |-> params, first |-> first],
                 IF first = 1
                 THEN projectRepo_findMany(DB, (ListProjects_page(params) - 1)
                                                  * ListProjects_limit(params),
                                           ListProjects_limit(params), ord, "none")
                 ELSE projectRepo_count(DB, "none"))

FinishListProjects ==
    /\ Ready
    /\ \E p \in AwaitingOp("ListProjects"), ord \in OrdersDesc(projects) :
           Finish(p, ListProjects_resume(DB, inflight[p].input.params, ord,
                                         [res |-> inflight[p].found, db |-> DB],
                                         inflight[p].input.first))

BeginListProjectsByContact(inputs) ==
    /\ Ready
    /\ inflight = NoneInFlight
    /\ \E p \in FreeProc, params \in inputs, ord \in OrdersDesc(projects), first \in 1..2 :
           Begin(p, "ListProjectsByContact", [params |-> params, first |-> first],
                 IF first = 1
                 THEN projectRepo_findByContactId(
                          DB, params.contactId,
                          (ListProjectsByContact_page(params) - 1)
                              * ListProjectsByContact_limit(params),
                          ListProjectsByContact_limit(params), ord, "none")
                 ELSE projectRepo_countByContactId(DB, params.contactId, "none"))

FinishListProjectsByContact ==
    /\ Ready
    /\ \E p \in AwaitingOp("ListProjectsByContact"), ord \in OrdersDesc(projects) :
           Finish(p, ListProjectsByContact_resume(DB, inflight[p].input.params, ord,
                                                  [res |-> inflight[p].found, db |-> DB],
                                                  inflight[p].input.first))

\* A quiet moment: every execution has ended and its result was taken.
Settle ==
    /\ \A p \in Procs : inflight[p].pc # "awaiting"
    /\ \E p \in Procs : inflight[p].pc = "done"
    /\ inflight' = NoneInFlight
    /\ UNCHANGED <<contacts, projects, nextId, now, last>>

\* Sequences of partial updates of stored contacts and projects.
NextUpdate ==
    \/ CreateContactOp(RaceSetupContacts, MaxIds, NoFault)
    \/ CreateProjectOp(FaultProjectInputs, MaxIds, MaxProjects, NoFault)
    \/ UpdateContactOp(ContactFieldUpdates, NoFault)
    \/ UpdateProjectOp(ProjectFieldUpdates, NoFault)
    \/ Respond

SpecUpdate == Init /\ [][NextUpdate]_vars

\* The list use cases, each of their two queries ending well or not, in
\* either order.
NextSettle ==
    \/ CreateContactOp(FaultContactInputs, MaxIds, NoFault)
    \/ CreateProjectOp(FaultProjectInputs, MaxIds, MaxProjects, NoFault)
    \/ ListContactsSettleOp(FaultListInputs)
    \/ ListProjectsSettleOp(FaultListInputs)
    \/ ListProjectsByContactSettleOp({Merge([contactId |-> c], q) :
                                         c \in 1..MaxIds, q \in FaultListInputs})
    \/ Respond

SpecSettle == Init /\ [][NextSettle]_vars

\* The use cases that write a project's owner or remove a contact.
NextOwner ==
    \/ CreateContactOp(FaultContactInputs, MaxIds, NoFault)
    \/ DeleteContactOp(NoFault)
    \/ CreateProjectOp(FaultProjectInputs, MaxIds, MaxProjects, NoFault)
    \/ UpdateProjectOp(ProjectOwnerUpdates, NoFault)
    \/ DeleteProjectOp(NoFault)
    \/ Respond

SpecOwner == Init /\ [][NextOwner]_vars

\* CreateContact executions that overlap in time: each is suspended at the
\* await between findByEmail and create while the others run.
NextRaceCreate ==
    \/ BeginCreateContact(FaultContactInputs)
    \/ FinishCreateContact
    \/ Settle

SpecRaceCreate == Init /\ [][NextRaceCreate]_vars

\* UpdateContact and UpdateProject executions on one id that overlap in time.
NextRaceUpdate ==
    \/ BeginCreateContact(RaceSetupContacts)
    \/ FinishCreateContact
    \/ RunCreateProject(FaultProjectInputs)
    \/ BeginUpdateContact(RaceContactUpdates)
    \/ FinishUpdateContact
    \/ BeginUpdateProject(RaceProjectUpdates)
    \/ FinishUpdateProject
    \/ Settle

SpecRaceUpdate == Init /\ [][NextRaceUpdate]_vars

\* DeleteProject executions on one id that overlap in time.
NextRaceDelete ==
    \/ BeginCreateContact(RaceSetupContacts)
    \/ FinishCreateContact
    \/ RunCreateProject(FaultProjectInputs)
    \/ BeginDeleteProject({NoFault} \cup Faults)
    \/ FinishDeleteProject
    \/ Settle

SpecRaceDelete == Init /\ [][NextRaceDelete]_vars

\* Promotions of one contact whose executions overlap. A stored prospect may
\* already be a client.
NextRacePromote ==
    \/ BeginCreateContact(RaceSetupContacts
                            \cup {[name |-> "John Doe", email |-> "john@example.com",
                                   status |-> "CLIENT"]})
    \/ FinishCreateContact
    \/ BeginPromoteContact
    \/ FinishPromoteContact
    \/ Settle

SpecRacePromote == Init /\ [][NextRacePromote]_vars

\* Updates that carry a status, alone or with another field.
ContactStatusUpdates ==
    {[status |-> "PROSPECT"], [name |-> "New Name", status |-> "CLIENT"]}

\* The operations that write a contact or a project, on contacts of both
\* statuses.
NextStatus ==
    \/ CreateContactOp(RaceSetupContacts
                         \cup {[name |-> "John Doe", email |-> "john@example.com",
                                status |-> "CLIENT"]},
                       MaxIds, NoFault)
    \/ UpdateContactOp(ContactStatusUpdates, NoFault)
    \/ PromoteContactOp(NoFault)
    \/ CreateProjectOp(FaultProjectInputs, MaxIds, MaxProjects, NoFault)
    \/ UpdateProjectOp(ProjectUpdateInputs, NoFault)
    \/ Respond

SpecStatus == Init /\ [][NextStatus]_vars

\* The deletion of a contact or a project overlapping with updates and
\* promotions of the same one.
NextRaceRivals ==
    \/ BeginCreateContact(RaceSetupContacts)
    \/ FinishCreateContact
    \/ RunCreateProject(FaultProjectInputs)
    \/ BeginDeleteContact
    \/ FinishDeleteContact
    \/ BeginUpdateContact({[name |-> "New Name"]})
    \/ FinishUpdateContact
    \/ BeginPromoteContact
    \/ FinishPromoteContact
    \/ BeginDeleteProject({NoFault})
    \/ FinishDeleteProject
    \/ BeginUpdateProject({[title |-> "x"]})
    \/ FinishUpdateProject
    \/ Settle

SpecRaceRivals == Init /\ [][NextRaceRivals]_vars

\* Lists whose two queries are answered at different moments, with creations
\* and deletions served in between.
NextRaceList ==
    \/ CreateContactOp(FaultContactInputs, MaxIds, NoFault)
    \/ DeleteContactOp(NoFault)
    \/ CreateProjectOp(FaultProjectInputs, MaxIds, MaxProjects, NoFault)
    \/ DeleteProjectOp(NoFault)
    \/ Respond
    \/ BeginListContacts(FaultListInputs)
    \/ FinishListContacts
    \/ BeginListProjects(FaultListInputs)
    \/ FinishListProjects
    \/ BeginListProjectsByContact({Merge([contactId |-> c], q) :
                                      c \in 1..MaxOwners, q \in FaultListInputs})
    \/ FinishListProjectsByContact
    \/ Settle

SpecRaceList == Init /\ [][NextRaceList]_vars

\* Bodies of POST /api/projects with a due date from the day before the
\* clock starts to the moment after it stops.
DueBodies ==
    ProjectCreates({"PENDING"}, 1..MaxOwners,
                   {toISOString(t) : t \in (-1)..(MaxTime + 1)})

\* Project creation through the route as the clock advances: the schema and
\* the use case each judge the due date.
NextDueApi ==
    \/ CreateContactOp(FaultContactInputs, MaxIds, NoFault)
    \/ POSTOp({b \in DueBodies : "dueDate" \in DOMAIN b}, MaxIds, MaxProjects)
    \/ Tick
    \/ Respond

SpecDueApi == Init /\ [][NextDueApi]_vars

\* A Project entity in memory, of any status.
InitEntity ==
    /\ contacts = {}
    /\ projects = {}
    /\ nextId = 1
    /\ now = 0
    /\ inflight = NoneInFlight
    /\ \E project \in ProjectEntities : last = Held("new Project", <<>>, project)

NextEntity ==
    \/ StartOp
    \/ CompleteOp
    \/ CancelOp

SpecEntity == InitEntity /\ [][NextEntity]_vars

\* A value is thrown into a route's catch block.
InitErrors ==
    /\ contacts = {}
    /\ projects = {}
    /\ nextId = 1
    /\ now = 0
    /\ inflight = NoneInFlight
    /\ \E error \in ThrownValues : last = Held("throw", <<>>, error)

NextErrors ==
    \/ HandleErrorOp
    \/ ThrowOp

SpecErrors == InitErrors /\ [][NextErrors]_vars

\* A list request arrives with its search parameters.
InitQuery ==
    /\ contacts = {}
    /\ projects = {}
    /\ nextId = 1
    /\ now = 0
    /\ inflight = NoneInFlight
    /\ \E searchParams \in SearchParamsInputs :
           last = Held("request", <<>>, searchParams)

NextQuery ==
    \/ ParsePaginationParamsOp
    \/ RequestOp

SpecQuery == InitQuery /\ [][NextQuery]_vars

\* The create / read / update / delete use cases, one request after the
\* other, on a database that answers every query.
Next ==
    \/ CreateContactOp(ContactCreateInputs, MaxIds, NoFault)
    \/ GetContactOp(NoFault)
    \/ UpdateContactOp(ContactUpdateInputs, NoFault)
    \/ DeleteContactOp(NoFault)
    \/ PromoteContactOp(NoFault)
    \/ CreateProjectOp(ProjectCreateInputs, MaxIds, MaxProjects, NoFault)
    \/ GetProjectOp(NoFault)
    \/ UpdateProjectOp(ProjectUpdateInputs, NoFault)
    \/ DeleteProjectOp(NoFault)
    \/ Respond

Spec == Init /\ [][Next]_vars

\* Project creation as the clock advances.
NextDue ==
    \/ CreateContactOp({[name |-> "Jane Doe", email |-> "jane@x.com"]}, MaxIds, NoFault)
    \/ CreateProjectOp(ProjectCreates({"PENDING"}, 1..MaxIds, DueDateInputs),
                       MaxIds, MaxProjects, NoFault)
    \/ Tick
    \/ Respond

SpecDue == Init /\ [][NextDue]_vars

\* The paginated lists, read between writes.
NextList ==
    \/ CreateContactOp({[name |-> "Jane Doe", email |-> "jane@x.com"],
                        [name |-> "John Doe", email |-> "john@example.com"]},
                       MaxOwners + MaxListed, NoFault)
    \/ CreateProjectOp(ProjectCreates({"PENDING"}, 1..MaxOwners, {}),
                       MaxOwners + MaxListed, MaxListed, NoFault)
    \/ ListContactsOp(ListInputs, NoFault)
    \/ ListProjectsOp(ListInputs, NoFault)
    \/ ListProjectsByContactOp(ListByContactInputs, NoFault)
    \/ Respond

SpecList == Init /\ [][NextList]_vars

\* Every use case on a repository one call of which fails, between writes
\* that succeed.
NextFault ==
    \/ CreateContactOp(FaultContactInputs, MaxIds, NoFault)
    \/ CreateProjectOp(FaultProjectInputs, MaxIds, MaxProjects, NoFault)
    \/ \E f \in Faults : CreateContactOp(FaultContactInputs, MaxIds, f)
    \/ \E f \in Faults : GetContactOp(f)
    \/ \E f \in Faults : UpdateContactOp(ContactUpdateInputs, f)
    \/ \E f \in Faults : DeleteContactOp(f)
    \/ \E f \in Faults : PromoteContactOp(f)
    \/ \E f \in Faults : ListContactsOp(FaultListInputs, f)
    \/ \E f \in Faults : CreateProjectOp(FaultProjectInputs, MaxIds, MaxProjects, f)
    \/ \E f \in Faults : GetProjectOp(f)
    \/ \E f \in Faults : UpdateProjectOp(ProjectUpdateInputs, f)
    \/ \E f \in Faults : DeleteProjectOp(f)
    \/ \E f \in Faults : ListProjectsOp(FaultListInputs, f)
    \/ \E f \in Faults : ListProjectsByContactOp(
                              {Merge([contactId |-> c], q) :
                                  c \in 1..MaxIds, q \in FaultListInputs}, f)
    \/ Respond

SpecFault == Init /\ [][NextFault]_vars

\* The project routes, on contacts created beforehand.
NextApi ==
    \/ CreateContactOp(FaultContactInputs
                         \cup {[name |-> "John Doe", email |-> "john@example.com",
                                status |-> "CLIENT"]},
                       MaxIds, NoFault)
    \/ POSTOp(PostBodies, MaxIds, MaxProjects)
    \/ PUTOp(PutBodies)
    \/ Respond

SpecApi == Init /\ [][NextApi]_vars

\* ------------------------------------------------------------------ claims

Ids(rows) == {r.id : r \in rows}

RowOf(rows, id) == TheOne({r \in rows : r.id = id})

Methods == {last.calls[i].method : i \in DOMAIN last.calls}

Succeeded == last.res.threw = "none"

\* The execution threw the application error with this status code.
Failed(statusCode) ==
    /\ last.res.threw = "AppError"
    /\ last.res.statusCode = statusCode

Unchanged == contacts = last.pre.contacts /\ projects = last.pre.projects

\* C1: no two stored contacts share an email; a CreateContact whose email is
\* already stored fails with 409, never calls contactRepo.create and leaves the
\* tables as they were; one with an unused email succeeds and stores exactly
\* one new contact, which carries that email.
C1_CreateContactKeepsEmailsUnique ==
    /\ \A a \in contacts, b \in contacts : a.email = b.email => a = b
    /\ last.op = "CreateContact" =>
         LET data == last.input.data
         IN  IF \E c \in last.pre.contacts : c.email = data.email
             THEN /\ Failed(409)
                  /\ "contactRepo.create" \notin Methods
                  /\ Unchanged
             ELSE /\ Succeeded
                  /\ projects = last.pre.projects
                  /\ last.pre.contacts \subseteq contacts
                  /\ Cardinality(contacts \ last.pre.contacts) = 1
                  /\ \A c \in contacts \ last.pre.contacts : c.email = data.email

\* C1 witness: a second CreateContact with a stored email was rejected.
C1_Witness ==
    /\ last.op = "CreateContact"
    /\ Failed(409)
    /\ \E c \in contacts : c.email = last.input.data.email

\* C2: PromoteContact on a stored contact succeeds exactly when its status is
\* PROSPECT, and then only that contact's status changes, to CLIENT; on a
\* CLIENT it fails with 400 "Only prospects can be promoted. Current status:
\* CLIENT", never calls contactRepo.update and changes nothing.
C2_PromoteOnlyProspects ==
    (last.op = "PromoteContact" /\ last.input.id \in Ids(last.pre.contacts)) =>
        LET c == RowOf(last.pre.contacts, last.input.id)
        IN  IF c.status = "PROSPECT"
            THEN /\ Succeeded
                 /\ contacts = (last.pre.contacts \ {c})
                                 \cup {[c EXCEPT !.status = "CLIENT"]}
                 /\ projects = last.pre.projects
            ELSE /\ Failed(400)
                 /\ last.res.message =
                      [tpl |-> "Only prospects can be promoted. Current status: ${}",
                       args |-> <<"CLIENT">>]
                 /\ "contactRepo.update" \notin Methods
                 /\ Unchanged

\* C2 witness: a PROSPECT was promoted while another contact was stored.
C2_Witness ==
    /\ last.op = "PromoteContact"
    /\ Succeeded
    /\ Cardinality(contacts) >= 2
    /\ RowOf(last.pre.contacts, last.input.id).status = "PROSPECT"
    /\ RowOf(contacts, last.input.id).status = "CLIENT"

\* The due date of a create request denotes an instant.
DueInstant(data) ==
    IF "dueDate" \in DOMAIN data THEN DateGetTime(data.dueDate) ELSE {}

\* C3: a CreateProject whose due date is an instant at or before the current
\* time fails with 400 without calling projectRepo.create; one without a due
\* date, or with a due date strictly later than the current time, calls
\* projectRepo.create exactly once with the data given and returns what it
\* returns: the stored project, or the adapter's error when the contact id
\* matches no contact.
C3_CreateProjectDueDate ==
    last.op = "CreateProject" =>
        LET data == last.input.data
        IN  /\ (\E t \in DueInstant(data) : t <= now) =>
                /\ Failed(400)
                /\ last.calls = <<>>
                /\ Unchanged
            /\ ("dueDate" \notin DOMAIN data \/ \E t \in DueInstant(data) : t > now) =>
                /\ Len(last.calls) = 1
                /\ last.calls[1] = Call("projectRepo.create", <<data>>)
                /\ contacts = last.pre.contacts
                /\ IF data.contactId \in Ids(contacts)
                   THEN /\ Succeeded
                        /\ Cardinality(projects \ last.pre.projects) = 1
                        /\ last.pre.projects \subseteq projects
                        /\ \A p \in projects \ last.pre.projects :
                              last.res.value = Project_fromDB(p)
                   ELSE /\ Failed(500)
                        /\ projects = last.pre.projects

\* C3 witness: a due date equal to the current time was rejected, after the
\* clock had advanced.
C3_Witness ==
    /\ last.op = "CreateProject"
    /\ Failed(400)
    /\ now > 0
    /\ DueInstant(last.input.data) = {now}

\* The use cases that look an entity up by id, and the table each looks in.
ById ==
    [GetContact |-> "contacts", UpdateContact |-> "contacts",
     DeleteContact |-> "contacts", PromoteContact |-> "contacts",
     GetProject |-> "projects", UpdateProject |-> "projects",
     DeleteProject |-> "projects"]

\* C4: GetContact, UpdateContact, DeleteContact, PromoteContact, GetProject,
\* UpdateProject and DeleteProject, given an id that matches no stored entity,
\* fail with 404 and a message that contains the id, call no repository update
\* or delete, and leave both tables as they were.
C4_MissingIdIsNotFound ==
    (last.op \in DOMAIN ById
       /\ last.input.id \notin Ids(last.pre[ById[last.op]])) =>
        /\ Failed(404)
        /\ \E i \in DOMAIN last.res.message.args :
              last.res.message.args[i] = last.input.id
        /\ Methods \cap {"contactRepo.update", "contactRepo.delete",
                         "projectRepo.update", "projectRepo.delete"} = {}
        /\ Unchanged

\* C4 witness: UpdateProject was given the id of a stored contact, which is
\* the id of no project.
C4_Witness ==
    /\ last.op = "UpdateProject"
    /\ Failed(404)
    /\ last.input.id \in Ids(contacts)

OwnsProject(id) == \E p \in projects : p.contactId = id

\* C5 as claimed: DeleteContact on any stored contact succeeds and removes it.
C5_AsClaimed ==
    (last.op = "DeleteContact" /\ last.input.id \in Ids(last.pre.contacts)) =>
        /\ Succeeded
        /\ contacts = last.pre.contacts \ {RowOf(last.pre.contacts, last.input.id)}

\* C5, amended: for every stored contact that owns no project, DeleteContact
\* called twice in sequence succeeds the first time, removing that contact and
\* nothing else, and fails the second time with 404, changing nothing.
C5_DeleteContactTwice ==
    /\ \A c \in contacts : ~OwnsProject(c.id) =>
         LET first == DeleteContact_execute(DB, c.id, NoFault)
             second == DeleteContact_execute(first.db, c.id, NoFault)
         IN  /\ ~Threw(first.res)
             /\ first.db.contacts = contacts \ {c}
             /\ first.db.projects = projects
             /\ second.res.threw = "AppError"
             /\ second.res.statusCode = 404
             /\ second.db = first.db
    /\ (last.op = "DeleteContact" /\ Succeeded) =>
         /\ last.input.id \in Ids(last.pre.contacts)
         /\ contacts = last.pre.contacts \ {RowOf(last.pre.contacts, last.input.id)}
         /\ projects = last.pre.projects

\* C5 witness: a first DeleteContact removed one of two contacts, and a second
\* one on the same id now fails with 404.
C5_Witness ==
    /\ last.op = "DeleteContact"
    /\ Succeeded
    /\ Cardinality(last.pre.contacts) = 2
    /\ Cardinality(contacts) = 1
    /\ DeleteContact_execute(DB, last.input.id, NoFault).res.statusCode = 404

\* C10: CreateProject and UpdateProject call no contact repository method and
\* leave the Contact table as it was, whatever the project's status and the
\* owning contact's status.
C10_ProjectUseCasesLeaveContacts ==
    last.op \in {"CreateProject", "UpdateProject"} =>
        /\ contacts = last.pre.contacts
        /\ Methods \subseteq {"projectRepo.create", "projectRepo.findById",
                              "projectRepo.update"}

\* C10 witness: a project of a PROSPECT was moved to IN_PROGRESS.
C10_Witness ==
    /\ last.op = "UpdateProject"
    /\ Succeeded
    /\ last.res.value.status = "IN_PROGRESS"
    /\ RowOf(contacts, last.res.value.contactId).status = "PROSPECT"

\* The page and the limit a list request asks for, normalised.
NormPage(params) ==
    IF "page" \in DOMAIN params /\ params.page > 1 THEN params.page ELSE 1

NormLimit(params) ==
    IF "limit" \notin DOMAIN params THEN 10
    ELSE IF params.limit > 1 THEN params.limit ELSE 1

ListOps == {"ListContacts", "ListProjects", "ListProjectsByContact"}

\* skip and take of the query a list use case issued.
Skip == last.calls[1].args[Len(last.calls[1].args) - 1]

Take == last.calls[1].args[Len(last.calls[1].args)]

\* The three list use cases issue the same skip and take for the same page and
\* limit.
SameSkipTake ==
    \A q \in ListInputs :
        LET a == ListContacts_execute(DB, q, <<>>, NoFault).calls[1].args
            b == ListProjects_execute(DB, q, <<>>, NoFault).calls[1].args
            c == ListProjectsByContact_execute(DB, Merge([contactId |-> 1], q),
                                               <<>>, NoFault).calls[1].args
        IN  a = b /\ c = <<1>> \o a

\* C6 as claimed: skip and take are both positive.
C6_AsClaimed ==
    last.op \in ListOps => (Skip > 0 /\ Take > 0)

\* C6, amended: for every page and limit given to ListContacts, ListProjects
\* and ListProjectsByContact (absent, zero, negative or positive), the
\* repository is queried with skip = (page - 1) * limit and take = limit, where
\* page is max(1, page), 1 when absent, and limit is max(1, limit), 10 when
\* absent; skip is never negative (it is 0 on page 1) and take is never below
\* 1; the three use cases issue the same skip and take for the same page and
\* limit.
C6_SkipTakeNormalised ==
    /\ last.op \in ListOps =>
         LET page == NormPage(last.input.params)
             limit == NormLimit(last.input.params)
         IN  /\ Skip = (page - 1) * limit
             /\ Take = limit
             /\ Skip >= 0
             /\ Take >= 1
    /\ SameSkipTake

\* C6 witness: ListProjects was asked for page 0 with limit -1 on a non-empty
\* table, and queried with skip 0 and take 1.
C6_Witness ==
    /\ last.op = "ListProjects"
    /\ projects # {}
    /\ last.input.params = [page |-> 0, limit |-> -1]
    /\ Skip = 0
    /\ Take = 1

\* The projects of the contact a ListProjectsByContact request names.
Owned == {p \in last.pre.projects : p.contactId = last.input.params.contactId}

\* C7: ListProjectsByContact(contactId, page p, limit l) over a table holding
\* N projects of that contact returns min(l, max(0, N - (p-1)*l)) projects,
\* all distinct and all of that contact, and totalCount = N whatever p and l;
\* projects of other contacts are neither returned nor counted.
C7_PageOfOwnedProjects ==
    last.op = "ListProjectsByContact" =>
        LET p == NormPage(last.input.params)
            l == NormLimit(last.input.params)
            N == Cardinality(Owned)
            data == last.res.value.data
        IN  /\ Succeeded
            /\ Len(data) = Min(l, Max(0, N - (p - 1) * l))
            /\ \A i \in DOMAIN data : data[i] \in {Project_fromDB(r) : r \in Owned}
            /\ \A i \in DOMAIN data, j \in DOMAIN data : data[i] = data[j] => i = j
            /\ last.res.value.totalCount = N
            /\ Unchanged

\* C7 witness: page 2 with limit 1 of a contact owning two projects, while
\* another contact owns a project as well: one project is returned.
C7_Witness ==
    /\ last.op = "ListProjectsByContact"
    /\ NormPage(last.input.params) = 2
    /\ NormLimit(last.input.params) = 1
    /\ Cardinality(Owned) = 2
    /\ Len(last.res.value.data) = 1
    /\ projects \ Owned # {}

\* The repository call the fault was injected at was made, and it failed with
\* an exception that is not the application error.
RawFaultHit ==
    /\ last.op # "idle"
    /\ last.fault.how = "raw"
    /\ last.fault.at <= Len(last.calls)

\* C8 as claimed: whenever a repository call of a use case fails with an
\* exception that is not the application error, execute throws the application
\* error with status 500.
C8_AsClaimed ==
    RawFaultHit => Failed(500)

\* C8, the use cases it fails for: the raw exception escapes CreateContact,
\* GetContact, DeleteContact, CreateProject and GetProject at every repository
\* call, and Update*, Promote and DeleteProject at their findById.
C8_RawErrorEscapes ==
    /\ RawFaultHit
    /\ last.op = "CreateContact"
    /\ last.fault.at = 1
    /\ last.res.threw = "Error"

IsRoute == last.op \in {"POST", "PUT"}

\* The request's promoteContact flag is exactly true.
FlagTrue ==
    /\ "promoteContact" \in DOMAIN last.input.body
    /\ last.input.body.promoteContact = JsonTrue

Executed(uc) == \E i \in DOMAIN last.ucs : last.ucs[i].uc = uc

\* The request passes the route's validation of the id and of the body.
PassesValidation ==
    IF last.op = "POST"
    THEN projectFormSchema_safeParse(Omit(last.input.body, "promoteContact"),
                                     now).success
    ELSE /\ validateId(last.input.id)
         /\ projectUpdateSchema_safeParse(last.input.body, now).success

\* A valid PUT asks for the promotion without naming the contact.
NoContactToPromote ==
    /\ last.op = "PUT"
    /\ PassesValidation
    /\ FlagTrue
    /\ "contactId" \notin DOMAIN last.input.body

PromotionFailed ==
    \/ NoContactToPromote
    \/ \E i \in DOMAIN last.ucs :
          last.ucs[i].uc = "PromoteContact" /\ Threw(last.ucs[i].res)

\* Every contact repository call comes before every project repository call.
ContactCallsFirst ==
    \A i \in DOMAIN last.calls, j \in DOMAIN last.calls :
        (last.calls[i].method \in {"contactRepo.findById", "contactRepo.update"}
           /\ last.calls[j].method \notin {"contactRepo.findById", "contactRepo.update"})
        => i < j

\* C9 as claimed: on every request to POST /projects and PUT /projects/:id the
\* promotion is run exactly when the flag is exactly true.
C9_AsClaimed ==
    IsRoute => (FlagTrue <=> (Executed("PromoteContact") \/ NoContactToPromote))

\* C9, amended: PromoteContact is executed only if the flag is exactly true,
\* and for a request that passes the route's validation it is executed
\* whenever the flag is exactly true and the body names a contact; it is the
\* first use case executed and has returned before CreateProject or
\* UpdateProject starts; if the promotion fails (404, 400 for a contact that
\* is no PROSPECT, 400 for a PUT body without contactId) no project use case
\* or repository method is invoked, the Project table is unchanged and the
\* response carries the promotion's error.
C9_PromotionBeforeProject ==
    IsRoute =>
        /\ Executed("PromoteContact") => FlagTrue
        /\ (PassesValidation /\ FlagTrue /\ ~NoContactToPromote) =>
              /\ last.ucs # <<>>
              /\ last.ucs[1].uc = "PromoteContact"
        /\ ~PassesValidation => (last.ucs = <<>> /\ Unchanged)
        /\ Len(last.ucs) <= 2
        /\ \A i \in DOMAIN last.ucs :
              /\ last.ucs[i].uc = "PromoteContact" => i = 1
              /\ i = 2 => ~Threw(last.ucs[1].res)
        /\ ContactCallsFirst
        /\ NoContactToPromote =>
              /\ last.res.status = 400
              /\ last.ucs = <<>>
              /\ Unchanged
        /\ PromotionFailed =>
              /\ ~Executed("CreateProject")
              /\ ~Executed("UpdateProject")
              /\ Methods \subseteq {"contactRepo.findById", "contactRepo.update"}
              /\ projects = last.pre.projects
              /\ last.res.status \in {400, 404}

\* C9 witness: a PUT on a stored project asked to promote a contact that is
\* already a CLIENT; the promotion failed with 400 and the project was not
\* updated.
C9_Witness ==
    /\ last.op = "PUT"
    /\ last.input.id \in Ids(projects)
    /\ Executed("PromoteContact")
    /\ last.res.status = 400
    /\ "status" \in DOMAIN last.input.body
    /\ RowOf(projects, last.input.id).status # last.input.body.status

\* The status a transition method leaves, by the status it is called in;
\* a status without an entry is left as it is.
Transitions ==
    [start |-> [PENDING |-> "IN_PROGRESS"],
     complete |-> [IN_PROGRESS |-> "COMPLETED"],
     cancel |-> [PENDING |-> "CANCELLED", IN_PROGRESS |-> "CANCELLED"]]

\* C11: start moves PENDING to IN_PROGRESS, complete moves IN_PROGRESS to
\* COMPLETED, cancel moves PENDING or IN_PROGRESS to CANCELLED; in any other
\* status the method leaves the status as it is; every other field is left
\* as it is in every case, and the method returns without throwing.
C11_ProjectTransitions ==
    last.op \in {"start", "complete", "cancel"} =>
        LET before == last.input
            after == last.res.value
            moves == Transitions[last.op]
        IN  /\ Succeeded
            /\ DOMAIN after = DOMAIN before
            /\ \A k \in DOMAIN before \ {"status"} : after[k] = before[k]
            /\ after.status = IF before.status \in DOMAIN moves
                              THEN moves[before.status]
                              ELSE before.status

\* C11 witness: start was called on a project that complete had just
\* completed, and left it COMPLETED.
C11_Witness ==
    /\ last.op = "start"
    /\ last.input.status = "COMPLETED"
    /\ last.res.value.status = "COMPLETED"
    /\ "dueDate" \in DOMAIN last.res.value

\* ---- C12

EmailsUnique ==
    \A c, d \in contacts : c.email = d.email => c = d

\* The executions of `op` that have ended.
DoneOp(op) ==
    {p \in Procs : inflight[p].pc = "done" /\ inflight[p].op = op}

Invoked(p, method) ==
    \E i \in DOMAIN inflight[p].calls : inflight[p].calls[i].method = method

\* C12 as claimed: under every interleaving of CreateContact executions with
\* the same email, no two stored contacts share an email, and an execution
\* that is refused never invoked contactRepo.create.
C12_AsClaimed ==
    /\ EmailsUnique
    /\ \A p \in DoneOp("CreateContact") :
           Threw(inflight[p].res) => ~Invoked(p, "contactRepo.create")

\* C12, the interleaving it fails for: two executions for one email have both
\* ended, each saw no contact at findByEmail, one stored its contact and the
\* other invoked contactRepo.create and was refused by the unique index with
\* status 500.
C12_CreateInvokedForDuplicate ==
    \E p, q \in DoneOp("CreateContact") :
        /\ inflight[p].input.data.email = inflight[q].input.data.email
        /\ ~Threw(inflight[p].res)
        /\ Threw(inflight[q].res)
        /\ inflight[q].res.statusCode = 500
        /\ Invoked(q, "contactRepo.create")
        /\ ~inflight[q].wrote
        /\ EmailsUnique

\* ---- C13

\* C13: every stored project's contactId is the id of a stored contact.
\* CreateProject with a contactId of no stored contact fails, stores nothing
\* and calls no contact repository method; an UpdateProject that names such a
\* contactId fails and changes nothing; DeleteContact on a contact that owns a
\* project fails and removes neither the contact nor a project.
C13_ProjectsHaveOwners ==
    /\ \A p \in projects : p.contactId \in Ids(contacts)
    /\ (/\ last.op = "CreateProject"
        /\ last.input.data.contactId \notin Ids(last.pre.contacts)) =>
           /\ Failed(500)
           /\ Unchanged
           /\ Methods = {"projectRepo.create"}
    /\ (/\ last.op = "UpdateProject"
        /\ "contactId" \in DOMAIN last.input.data
        /\ last.input.data.contactId \notin Ids(last.pre.contacts)) =>
           /\ Threw(last.res)
           /\ Unchanged
    /\ (/\ last.op = "DeleteContact"
        /\ \E p \in last.pre.projects : p.contactId = last.input.id) =>
           /\ Failed(500)
           /\ Unchanged

\* C13 witness: DeleteContact was refused for a contact that owns a project,
\* in a table where a CreateProject naming an id of no contact would be
\* refused as well.
C13_Witness ==
    /\ last.op = "DeleteContact"
    /\ \E p \in last.pre.projects : p.contactId = last.input.id
    /\ Failed(500)
    /\ Cardinality(contacts) = 1
    /\ Cardinality(projects) = 1
    /\ \E data \in FaultProjectInputs :
           /\ data.contactId \notin Ids(contacts)
           /\ Threw(CreateProject_execute(DB, now, data, NoFault).res)

\* ---- C14

\* The two repository methods a list use case queries.
ListQueries(op) ==
    CASE op = "ListContacts" -> {"contactRepo.findMany", "contactRepo.count"}
      [] op = "ListProjects" -> {"projectRepo.findMany", "projectRepo.count"}
      [] op = "ListProjectsByContact" ->
            {"projectRepo.findByContactId", "projectRepo.countByContactId"}

\* C14: a list execution issues its page query and its count query, both of
\* them, whatever becomes of either. If both complete it returns {data,
\* totalCount} made of the two results; if either fails it throws the
\* application error with status 500 and returns nothing, whichever of the
\* two settles first and whichever way it failed.
C14_ListQueriesSettleTogether ==
    last.op \in ListOps =>
        /\ Len(last.calls) = 2
        /\ Methods = ListQueries(last.op)
        /\ Unchanged
        /\ IF last.input.page = "none" /\ last.input.count = "none"
           THEN /\ Succeeded
                /\ DOMAIN last.res.value = {"data", "totalCount"}
                /\ Len(last.res.value.data) <= last.res.value.totalCount
           ELSE /\ Failed(500)
                /\ "value" \notin DOMAIN last.res

\* C14 witness: the page query completed first, with a page of one contact,
\* the count query failed after it, and the execution threw.
C14_Witness ==
    /\ last.op = "ListContacts"
    /\ contacts # {}
    /\ last.input.first = 1
    /\ last.input.page = "none"
    /\ last.input.count # "none"
    /\ Failed(500)

\* ---- C15

\* The row `new` is the row `old` with no column changed that `data` does
\* not give, and with its id and createdAt.
OnlyGivenChanged(old, new, data) ==
    /\ DOMAIN new = DOMAIN old
    /\ new.id = old.id
    /\ new.createdAt = old.createdAt
    /\ \A k \in DOMAIN old \ DOMAIN data : new[k] = old[k]

\* The table `after` is the table `before` with the row `id` changed in the
\* columns `data` gives at most.
OnlyRowChanged(before, after, id, data) ==
    /\ id \in Ids(before)
    /\ Ids(after) = Ids(before)
    /\ \A r \in before : r.id # id => r \in after
    /\ OnlyGivenChanged(RowOf(before, id), RowOf(after, id), data)

\* C15: a successful UpdateContact or UpdateProject changes, of the entity
\* with the given id, only fields that partialData gives; its id, its
\* createdAt, its other fields, every other entity and the other table are as
\* before, and the entity returned is the stored one. Project.update on an
\* entity likewise leaves every field that is not given as it was.
C15_UpdateWritesGivenFieldsOnly ==
    /\ (last.op = "UpdateContact" /\ Succeeded) =>
          /\ projects = last.pre.projects
          /\ OnlyRowChanged(last.pre.contacts, contacts, last.input.id, last.input.data)
          /\ last.res.value = Contact_fromDB(RowOf(contacts, last.input.id))
    /\ (last.op = "UpdateProject" /\ Succeeded) =>
          /\ contacts = last.pre.contacts
          /\ OnlyRowChanged(last.pre.projects, projects, last.input.id, last.input.data)
          /\ last.res.value = Project_fromDB(RowOf(projects, last.input.id))
    /\ \A p \in projects, data \in ProjectFieldUpdates :
          LET before == Project_fromDB(p)
              after == Project_update(before, data)
          IN  \A k \in DOMAIN before \ DOMAIN data :
                  k \in DOMAIN after /\ after[k] = before[k]

\* C15 witness: a second update of a project gave its title only, and the
\* description and amount written by an earlier update are still there; a
\* contact is stored too.
C15_Witness ==
    /\ last.op = "UpdateProject"
    /\ Succeeded
    /\ DOMAIN last.input.data = {"title"}
    /\ contacts # {}
    /\ LET row == RowOf(projects, last.input.id)
       IN  /\ row.title = "x"
           /\ row.description = {"d"}
           /\ row.amount = {5}

\* ---- C16

\* C16: a CreateContact that succeeds stores one contact whose status is
\* data.status when given and PROSPECT when not, whose name and email are the
\* ones given, and whose phone, company and notes are the ones given or NULL;
\* it hands exactly these to contactRepo.create and returns the entity made of
\* the stored row.
C16_CreateContactStoresData ==
    (last.op = "CreateContact" /\ Succeeded) =>
        LET data == last.input.data
            made == contacts \ last.pre.contacts
            row == TheOne(made)
        IN  /\ Cardinality(made) = 1
            /\ row.status = (IF "status" \in DOMAIN data THEN data.status ELSE "PROSPECT")
            /\ row.name = data.name
            /\ row.email = data.email
            /\ \A k \in ContactNullable : row[k] = Opt(data, k)
            /\ last.calls[Len(last.calls)].method = "contactRepo.create"
            /\ LET arg == last.calls[Len(last.calls)].args[1]
               IN  /\ \A k \in DOMAIN data : arg[k] = data[k]
                   /\ DOMAIN arg = DOMAIN data \cup {"status"}
            /\ last.res.value = Contact_fromDB(row)
            /\ last.res.value.status = row.status

\* C16 witness: a contact was created as CLIENT with phone, company and
\* notes, next to one created without a status.
C16_Witness ==
    /\ last.op = "CreateContact"
    /\ Succeeded
    /\ last.res.value.status = "CLIENT"
    /\ {"phone", "company", "notes"} \subseteq DOMAIN last.res.value
    /\ \E c \in last.pre.contacts : c.status = "PROSPECT"

\* ---- C17

GenericBody == [message |-> [tpl |-> "Internal server error.", args |-> <<>>]]

\* C17: handleError returns a response for every thrown value. For an
\* AppError the response has the error's status code and the body {message}
\* with the error's message; for any other value, whatever it carries, the
\* response has status 500 and the body {message: 'Internal server error.'}.
C17_HandleErrorMapsErrors ==
    last.op = "handleError" =>
        LET error == last.input
            response == last.res.value
        IN  /\ Succeeded
            /\ DOMAIN response = {"status", "json"}
            /\ DOMAIN response.json = {"message"}
            /\ IF error.threw = "AppError"
               THEN /\ response.status = error.statusCode
                    /\ response.json.message = error.message
               ELSE /\ response.status = 500
                    /\ response.json = GenericBody

\* C17 witness: an Error that is no AppError but carries statusCode 404 and a
\* message was answered with 500 and the generic body.
C17_Witness ==
    /\ last.op = "handleError"
    /\ last.input.threw = "Error"
    /\ "statusCode" \in DOMAIN last.input
    /\ last.input.statusCode = 404
    /\ last.res.value.status = 500
    /\ last.res.value.json = GenericBody

\* ---- C18

Status(res, statusCode) ==
    /\ res.threw = "AppError"
    /\ res.statusCode = statusCode

\* findById returned null to the execution.
FoundNone(p) ==
    /\ ~Threw(inflight[p].found)
    /\ inflight[p].found.value = {}

\* findById returned the project to the execution, and its delete failed.
DeleteFailed(p) ==
    /\ ~Threw(inflight[p].found)
    /\ inflight[p].found.value # {}
    /\ Invoked(p, "projectRepo.delete")
    /\ Threw(inflight[p].res)

\* C18 as claimed: DeleteProject fails with 404 exactly when findById
\* returned no project, and with 500 exactly when the project was found and
\* the repository's delete failed.
C18_AsClaimed ==
    \A p \in DoneOp("DeleteProject") :
        /\ Status(inflight[p].res, 404) <=> FoundNone(p)
        /\ Status(inflight[p].res, 500) <=> DeleteFailed(p)

\* Every execution of the round is over, none of them with a repository
\* fault of its own, and one of them was handed the project by findById.
QuietRound ==
    /\ \A p \in Procs : inflight[p].pc # "awaiting"
    /\ \A p \in DoneOp("DeleteProject") : inflight[p].input.fault = NoFault
    /\ \E p \in DoneOp("DeleteProject") : ~FoundNone(p)

\* C18, amended: DeleteProject fails with 404 exactly when findById returned
\* no project, and then never invoked delete; it fails with 500 exactly when
\* findById itself failed with the repository's 500 or the project was found
\* and delete failed. Of the executions on the id of a stored project that
\* overlap in any order, exactly one succeeds, each other one fails with 404
\* or 500 without writing, and the project is absent afterwards.
C18_DeleteProjectOutcomes ==
    /\ \A p \in DoneOp("DeleteProject") :
           /\ Status(inflight[p].res, 404) <=> FoundNone(p)
           /\ FoundNone(p) => ~Invoked(p, "projectRepo.delete")
           /\ Status(inflight[p].res, 500) <=>
                  \/ Status(inflight[p].found, 500)
                  \/ DeleteFailed(p)
    /\ QuietRound =>
           /\ Cardinality({p \in DoneOp("DeleteProject") : ~Threw(inflight[p].res)}) = 1
           /\ \A p \in DoneOp("DeleteProject") :
                  /\ inflight[p].input.id \notin Ids(projects)
                  /\ Threw(inflight[p].res) =>
                         /\ Status(inflight[p].res, 404) \/ Status(inflight[p].res, 500)
                         /\ ~inflight[p].wrote

\* C18 witness: two executions both found the project; one deleted it, the
\* other one's delete then failed and it threw 500.
C18_Witness ==
    /\ QuietRound
    /\ \E p, q \in DoneOp("DeleteProject") :
           /\ ~Threw(inflight[p].res)
           /\ DeleteFailed(q)
           /\ Status(inflight[q].res, 500)

\* C18 witness of the other order: the second execution looked the project
\* up after the first had deleted it, and threw 404.
C18_WitnessNotFound ==
    /\ QuietRound
    /\ \E p, q \in DoneOp("DeleteProject") :
           /\ ~Threw(inflight[p].res)
           /\ FoundNone(q)
           /\ Status(inflight[q].res, 404)

\* ---- C19

\* The executions of `op` that have ended after findById handed them the
\* record.
Updaters(op) ==
    {p \in DoneOp(op) : ~Threw(inflight[p].found) /\ inflight[p].found.value # {}}

\* Of the executions of `op` that gave the field k, the one whose repository
\* update ran last.
LastWriter(op, k) ==
    CHOOSE p \in Updaters(op) :
        /\ k \in DOMAIN inflight[p].input.data
        /\ \A q \in Updaters(op) :
               k \in DOMAIN inflight[q].input.data => inflight[q].seq <= inflight[p].seq

\* Every execution of `op` on the record succeeded, and each column of the
\* stored row that some execution gave holds what the last of them gave.
LastWriterWins(op, table, nullable) ==
    \A p \in Updaters(op) :
        /\ ~Threw(inflight[p].res)
        /\ inflight[p].input.id \in Ids(table)
        /\ \A k \in DOMAIN inflight[p].input.data :
               LET given == inflight[LastWriter(op, k)].input.data[k]
                   row == RowOf(table, inflight[p].input.id)
               IN  row[k] = IF k \in nullable THEN {given} ELSE given

\* C19: under every interleaving of UpdateContact executions on the id of a
\* stored contact, and of UpdateProject executions on the id of a stored
\* project, every execution succeeds, and each field of the stored record
\* that some execution provided holds the value given by the execution whose
\* repository update ran last among those that provided it.
C19_LastWriterWins ==
    /\ LastWriterWins("UpdateContact", contacts, ContactNullable)
    /\ LastWriterWins("UpdateProject", projects, ProjectNullable)

\* C19 witness: two UpdateContact executions read the contact before either
\* wrote; the one giving name and phone wrote first, the one giving another
\* name wrote last: the name is the second one's, the phone the first one's.
C19_Witness ==
    \E p, q \in Updaters("UpdateContact") :
        /\ inflight[p].seq = 1
        /\ inflight[q].seq = 2
        /\ DOMAIN inflight[p].input.data = {"name", "phone"}
        /\ DOMAIN inflight[q].input.data = {"name"}
        /\ "phone" \notin DOMAIN TheOne(inflight[q].found.value)
        /\ LET row == RowOf(contacts, inflight[p].input.id)
           IN  /\ row.name = inflight[q].input.data.name
               /\ row.phone = {inflight[p].input.data.phone}

\* ---- C20

\* The parameter is not provided, empty, or no number.
NotANumber(params, key) ==
    \/ key \notin DOMAIN params
    \/ params[key].kind \in {"blank", "text"}

AtLeastOne(x) == ~x.nan /\ x.tenths >= 10

\* C20 as claimed: parsePaginationParams returns page 1 when page is not
\* provided, empty or invalid, limit 10 when limit is not provided, empty or
\* invalid, and for every input a page >= 1 and a limit >= 1.
C20_AsClaimed ==
    last.op = "parsePaginationParams" =>
        LET params == last.input
            parsed == last.res.value
        IN  /\ NotANumber(params, "page") => parsed.page = Num(10)
            /\ NotANumber(params, "limit") => parsed.limit = Num(100)
            /\ AtLeastOne(parsed.page)
            /\ AtLeastOne(parsed.limit)

\* C20, the input it fails for: page is text that is no number, limit is not
\* given; the page returned is NaN, which is neither 1 nor >= 1, next to the
\* default limit 10.
C20_InvalidPageIsNaN ==
    /\ last.op = "parsePaginationParams"
    /\ DOMAIN last.input = {"page"}
    /\ last.input.page = TextString
    /\ last.res.value.page = NaN
    /\ last.res.value.limit = Num(100)

\* ------------------------------------------------------------- ProjectForm

\* The component's state: pendingValues (null is {}) and showPromotionDialog.
FormState(pendingValues, showPromotionDialog) ==
    [pendingValues |-> pendingValues, showPromotionDialog |-> showPromotionDialog]

\* What one handler of the form did: the state it left and the onSubmit calls
\* it made, in order.
Handled(form, calls) == [form |-> form, calls |-> calls]

\* contacts?.find((c) => c.id === selectedContactId): undefined is {}.
selectedContact(list, selectedContactId) ==
    {c \in list : c.id = selectedContactId}

\* Submits every value at once, whatever the contact's status.
handleValidationAndSubmit_NoDialog(form, list, values) ==
    IF selectedContact(list, values.contactId) = {} THEN Handled(form, <<>>)
    ELSE Handled(form, <<values>>)

handleValidationAndSubmit(form, list, values) ==
    LET selected == selectedContact(list, values.contactId)
    IN  IF selected = {} THEN Handled(form, <<>>)
        ELSE IF /\ values.status \in {"ACCEPTED", "IN_PROGRESS"}
                /\ TheOne(selected).status = "PROSPECT"
        THEN Handled(FormState({values}, TRUE), <<>>)
        ELSE Handled(form, <<values>>)

confirmPromotion(form) ==
    Handled(FormState({}, FALSE),
            IF form.pendingValues # {}
            THEN <<Merge(TheOne(form.pendingValues), [promoteContact |-> JsonTrue])>>
            ELSE <<>>)

cancelPromotion(form) == Handled(FormState({}, FALSE), <<>>)

\* <Dialog onOpenChange={setShowPromotionDialog}>: Escape or a click outside.
onOpenChange(form, open) ==
    Handled(FormState(form.pendingValues, open), <<>>)

\* The values the resolver hands over: any status, a contact of the list or
\* one that is not in it.
FormValues == ProjectCreates(ProjectStatus, 1..MaxOwners + 1, {})

\* The lists useListContactsForProjectForm may have loaded: each contact is
\* absent, a prospect or a client; the empty list also stands for no data yet.
FormContacts ==
    {{ContactRowOf([nextId |-> c], 0,
                   [name |-> "Jane Doe", email |-> "jane@x.com", status |-> st[c]]) :
         c \in {x \in 1..MaxOwners : st[x] # "absent"}} :
        st \in [1..MaxOwners -> ContactStatus \cup {"absent"}]}

\* The form after a handler ran: `pre` is the state the handler found.
HandledOp(op, input, pre, r) ==
    last' = [op |-> op, input |-> input, fault |-> NoFault, res |-> Ok(r.form),
             calls |-> r.calls, ucs |-> <<>>, pre |-> pre]

Form == last.res.value

SubmitOp ==
    /\ last.op # "idle"
    /\ \E values \in FormValues :
           HandledOp("handleValidationAndSubmit", values, Form,
                     handleValidationAndSubmit(Form, contacts, values))
    /\ UNCHANGED <<contacts, projects, nextId, now, inflight>>

\* The dialog's buttons exist while it is open.
ConfirmPromotionOp ==
    /\ Form.showPromotionDialog
    /\ HandledOp("confirmPromotion", <<>>, Form, confirmPromotion(Form))
    /\ UNCHANGED <<contacts, projects, nextId, now, inflight>>

CancelPromotionOp ==
    /\ Form.showPromotionDialog
    /\ HandledOp("cancelPromotion", <<>>, Form, cancelPromotion(Form))
    /\ UNCHANGED <<contacts, projects, nextId, now, inflight>>

DismissOp ==
    /\ Form.showPromotionDialog
    /\ HandledOp("onOpenChange", <<>>, Form, onOpenChange(Form, FALSE))
    /\ UNCHANGED <<contacts, projects, nextId, now, inflight>>

\* The contact list is fetched again.
RefetchOp ==
    /\ last.op # "idle"
    /\ \E list \in FormContacts :
           /\ list # contacts
           /\ contacts' = list
    /\ HandledOp("refetch", <<>>, Form, Handled(Form, <<>>))
    /\ UNCHANGED <<projects, nextId, now, inflight>>

\* The form is mounted: nothing pending, the dialog closed.
InitForm ==
    /\ contacts \in FormContacts
    /\ projects = {}
    /\ nextId = 1
    /\ now = 0
    /\ inflight = NoneInFlight
    /\ last = [op |-> "mount", input |-> <<>>, fault |-> NoFault,
               res |-> Ok(FormState({}, FALSE)), calls |-> <<>>, ucs |-> <<>>,
               pre |-> FormState({}, FALSE)]

NextForm ==
    \/ SubmitOp
    \/ ConfirmPromotionOp
    \/ CancelPromotionOp
    \/ DismissOp
    \/ RefetchOp

SpecForm == InitForm /\ [][NextForm]_vars

\* C21: a submit with status ACCEPTED or IN_PROGRESS for a selected PROSPECT
\* calls nothing and opens the dialog with the values pending; confirming
\* calls onSubmit once with those values plus promoteContact: true and clears
\* them; cancelling clears them and calls nothing; any other submit with a
\* selected contact calls onSubmit once with the values as they are, and a
\* submit with no selected contact calls nothing.
C21_SubmitProtocol ==
    /\ Form.showPromotionDialog => Form.pendingValues # {}
    /\ last.op = "handleValidationAndSubmit" =>
         LET selected == {c \in contacts : c.id = last.input.contactId}
         IN  IF selected = {} THEN last.calls = <<>> /\ Form = last.pre
             ELSE IF /\ last.input.status \in {"ACCEPTED", "IN_PROGRESS"}
                     /\ \A c \in selected : c.status = "PROSPECT"
             THEN /\ last.calls = <<>>
                  /\ Form = FormState({last.input}, TRUE)
             ELSE /\ last.calls = <<last.input>>
                  /\ "promoteContact" \notin DOMAIN last.calls[1]
                  /\ Form = last.pre
    /\ last.op = "confirmPromotion" =>
         /\ Len(last.calls) = 1
         /\ \A v \in last.pre.pendingValues :
                /\ DOMAIN last.calls[1] = DOMAIN v \cup {"promoteContact"}
                /\ \A k \in DOMAIN v : last.calls[1][k] = v[k]
                /\ last.calls[1].promoteContact = JsonTrue
         /\ Form = FormState({}, FALSE)
    /\ last.op = "cancelPromotion" =>
         /\ last.calls = <<>>
         /\ Form = FormState({}, FALSE)

C21_Witness ==
    /\ last.op = "confirmPromotion"
    /\ Len(last.calls) = 1
    /\ last.calls[1].status = "IN_PROGRESS"
    /\ last.pre.showPromotionDialog

\* -------------------------------------------------------------- Pagination

\* Math.ceil(a / b) for a >= 0 and b >= 1.
MathCeil(a, b) == (a + b - 1) \div b

totalPages(totalCount, pageSize) == Max(1, MathCeil(totalCount, pageSize))

\* What the list screen shows: the container's page state and page size, and
\* the total count of the data it holds.
ListScreen(page, pageSize, totalCount) ==
    [page |-> page, pageSize |-> pageSize, totalCount |-> totalCount]

\* onPageChange={setPage}: the page asked for becomes the page shown.
onPageChange(screen, newPage) ==
    Handled([screen EXCEPT !.page = newPage], <<newPage>>)

handlePrevious(screen) == onPageChange(screen, Max(screen.page - 1, 1))

handleNext(screen) ==
    onPageChange(screen,
                 Min(screen.page + 1, totalPages(screen.totalCount, screen.pageSize)))

Screen == last.res.value

\* <Button onClick={handlePrevious} disabled={page === 1}>
PreviousOp ==
    /\ Screen.page # 1
    /\ HandledOp("handlePrevious", <<>>, Screen, handlePrevious(Screen))
    /\ UNCHANGED <<contacts, projects, nextId, now, inflight>>

\* <Button onClick={handleNext} disabled={page === totalPages}>
NextPageOp ==
    /\ Screen.page # totalPages(Screen.totalCount, Screen.pageSize)
    /\ HandledOp("handleNext", <<>>, Screen, handleNext(Screen))
    /\ UNCHANGED <<contacts, projects, nextId, now, inflight>>

\* The list is fetched again and the table has grown or shrunk meanwhile.
RefetchCountOp ==
    /\ last.op # "idle"
    /\ \E totalCount \in 0..MaxTotalCount :
           /\ totalCount # Screen.totalCount
           /\ HandledOp("refetch", <<>>, Screen,
                        Handled([Screen EXCEPT !.totalCount = totalCount], <<>>))
    /\ UNCHANGED <<contacts, projects, nextId, now, inflight>>

\* The screen is mounted on page 1 (useState(1)).
InitPagination ==
    /\ contacts = {}
    /\ projects = {}
    /\ nextId = 1
    /\ now = 0
    /\ inflight = NoneInFlight
    /\ \E pageSize \in 1..MaxLimit, totalCount \in 0..MaxTotalCount :
           last = [op |-> "mount", input |-> <<>>, fault |-> NoFault,
                   res |-> Ok(ListScreen(1, pageSize, totalCount)),
                   calls |-> <<>>, ucs |-> <<>>,
                   pre |-> ListScreen(1, pageSize, totalCount)]

NextPagination ==
    \/ PreviousOp
    \/ NextPageOp
    \/ RefetchCountOp

SpecPagination == InitPagination /\ [][NextPagination]_vars

\* C22: every click of Previous or Next asks for a page between 1 and
\* totalPages = max(1, ceil(totalCount / pageSize)) of the count shown at the
\* click, also after the count has shrunk: Previous, enabled off page 1, asks
\* for max(page - 1, 1), and Next, enabled off the last page, asks for
\* min(page + 1, totalPages).
C22_AsClaimed ==
    last.op \in {"handlePrevious", "handleNext"} =>
        LET pages == Max(1, (last.pre.totalCount + last.pre.pageSize - 1)
                                \div last.pre.pageSize)
        IN  /\ last.calls[1] \in 1..pages
            /\ last.op = "handlePrevious" =>
                 /\ last.pre.page # 1
                 /\ last.calls[1] = Max(last.pre.page - 1, 1)
            /\ last.op = "handleNext" =>
                 /\ last.pre.page # pages
                 /\ last.calls[1] = Min(last.pre.page + 1, pages)

\* Previous was clicked on page 3 of a list that has shrunk to one page.
C22_PreviousLeavesRange ==
    /\ last.op = "handlePrevious"
    /\ last.pre.page = 3
    /\ last.pre.totalCount <= last.pre.pageSize
    /\ last.calls = <<2>>
    /\ Screen.page = 2

\* C23: a POST /api/projects or PUT /api/projects/:id request answered with an
\* error status leaves the Contact and the Project table exactly as they were,
\* also when promoteContact is true and the project is refused after the
\* promotion step.
C23_AsClaimed ==
    (last.op \in {"POST", "PUT"} /\ last.res.status >= 400) =>
        /\ contacts = last.pre.contacts
        /\ projects = last.pre.projects

\* A POST with promoteContact: true for a prospect and a due date that is not
\* in the future is answered 400, and the contact is a client afterwards.
C23_PromotedThenRejected ==
    /\ last.op = "POST"
    /\ last.res.status = 400
    /\ Len(last.ucs) = 2
    /\ last.ucs[2].uc = "CreateProject"
    /\ projects = last.pre.projects
    /\ \E c \in last.pre.contacts :
           /\ c.id = last.input.body.contactId
           /\ c.status = "PROSPECT"
           /\ [c EXCEPT !.status = "CLIENT"] \in contacts

\* A PUT with promoteContact: true on the id of no stored project is answered
\* 404, and the contact is a client afterwards.
C23_PromotedThenNotFound ==
    /\ last.op = "PUT"
    /\ last.res.status = 404
    /\ Len(last.ucs) = 2
    /\ projects = last.pre.projects
    /\ contacts # last.pre.contacts

\* The executions of PromoteContact that have ended, on one contact.
Promoters == DoneOp("PromoteContact")

\* No execution is suspended.
AllEnded == \A p \in Procs : inflight[p].pc # "awaiting"

\* C24: of the PromoteContact executions that overlap on one PROSPECT contact,
\* however their findById and update steps interleave, exactly one succeeds
\* and every other one fails with 400, so that repository update with status
\* CLIENT is invoked at most once.
C24_AsClaimed ==
    (/\ AllEnded
     /\ \E p \in Promoters :
            \E c \in inflight[p].found.value : c.status = "PROSPECT") =>
        /\ Cardinality({p \in Promoters : ~Threw(inflight[p].res)}) = 1
        /\ \A p \in Promoters :
               Threw(inflight[p].res) => Status(inflight[p].res, 400)
        /\ Cardinality({p \in Promoters : Invoked(p, "contactRepo.update")}) <= 1

\* Two executions read the prospect before either wrote: both invoked update
\* and both succeeded.
C24_BothPromoted ==
    /\ AllEnded
    /\ Cardinality({p \in Promoters :
                       /\ ~Threw(inflight[p].res)
                       /\ Invoked(p, "contactRepo.update")}) = 2
    /\ \E c \in contacts : c.status = "CLIENT"

\* C25: a stored contact whose status is CLIENT is still CLIENT after every
\* CreateContact, UpdateContact, PromoteContact, CreateProject and
\* UpdateProject: no operation moves it back to PROSPECT.
C25_AsClaimed ==
    last.op \in {"CreateContact", "UpdateContact", "PromoteContact",
                 "CreateProject", "UpdateProject"} =>
        \A c \in last.pre.contacts :
            c.status = "CLIENT" =>
                \A d \in contacts : d.id = c.id => d.status = "CLIENT"

\* UpdateContact with {status: "PROSPECT"} succeeded on a client, which is
\* stored as a prospect afterwards.
C25_ClientDemoted ==
    /\ last.op = "UpdateContact"
    /\ ~Threw(last.res)
    /\ last.input.data = [status |-> "PROSPECT"]
    /\ last.res.value.status = "PROSPECT"
    /\ \E c \in last.pre.contacts :
           /\ c.status = "CLIENT"
           /\ c.id = last.input.id
           /\ contacts = (last.pre.contacts \ {c}) \cup {[c EXCEPT !.status = "PROSPECT"]}

\* ------------------------------------------------------- project lifecycle

\* A Project entity held in memory over a sequence of calls: what was called
\* last, the entity before and after it, the status the entity was built with
\* and how many calls have changed its status since.
Lived(op, before, after, born, changes) ==
    [op |-> op, input |-> before, fault |-> NoFault, res |-> Ok(after),
     calls |-> <<>>, ucs |-> <<>>,
     pre |-> [status |-> born,
              changes |-> IF after.status # before.status THEN changes + 1
                          ELSE changes]]

Entity == last.res.value

StartStep ==
    /\ last.op \in EntityOps
    /\ last' = Lived("start", Entity, Project_start(Entity),
                     last.pre.status, last.pre.changes)
    /\ UNCHANGED <<contacts, projects, nextId, now, inflight>>

CompleteStep ==
    /\ last.op \in EntityOps
    /\ last' = Lived("complete", Entity, Project_complete(Entity),
                     last.pre.status, last.pre.changes)
    /\ UNCHANGED <<contacts, projects, nextId, now, inflight>>

CancelStep ==
    /\ last.op \in EntityOps
    /\ last' = Lived("cancel", Entity, Project_cancel(Entity),
                     last.pre.status, last.pre.changes)
    /\ UNCHANGED <<contacts, projects, nextId, now, inflight>>

\* A Project entity is built, with any status.
InitLifecycle ==
    /\ contacts = {}
    /\ projects = {}
    /\ nextId = 1
    /\ now = 0
    /\ inflight = NoneInFlight
    /\ \E project \in ProjectEntities :
           last = Lived("new Project", project, project, project.status, 0)

NextLifecycle ==
    \/ StartStep
    \/ CompleteStep
    \/ CancelStep

SpecLifecycle == InitLifecycle /\ [][NextLifecycle]_vars

\* C26: under every sequence of start, complete and cancel calls, COMPLETED
\* and CANCELLED are never left, QUOTE_SENT and ACCEPTED are never left and
\* never entered, the status changes at most twice, and a project built
\* PENDING is only ever PENDING, IN_PROGRESS, COMPLETED or CANCELLED.
C26_Lifecycle ==
    LET born == last.pre.status
        before == last.input.status
        status == Entity.status
    IN  /\ before \in {"COMPLETED", "CANCELLED", "QUOTE_SENT", "ACCEPTED"} =>
              status = before
        /\ born \in {"COMPLETED", "CANCELLED", "QUOTE_SENT", "ACCEPTED"} =>
              status = born /\ last.pre.changes = 0
        /\ status \in {"QUOTE_SENT", "ACCEPTED"} => before = status /\ born = status
        /\ last.pre.changes <= 2
        /\ born = "PENDING" =>
              status \in {"PENDING", "IN_PROGRESS", "COMPLETED", "CANCELLED"}

\* A project built PENDING was started and completed, and the cancel called
\* next left it COMPLETED.
C26_Witness ==
    /\ last.op = "cancel"
    /\ last.pre.status = "PENDING"
    /\ last.pre.changes = 2
    /\ last.input.status = "COMPLETED"
    /\ Entity.status = "COMPLETED"

\* C27: an UpdateContact that sets the email to one held by a different
\* stored contact fails with an application error and leaves the Contact
\* table as it was, so that no two contacts ever share an email, although the
\* use case makes no findByEmail call.
C27_EmailStaysUnique ==
    /\ EmailsUnique
    /\ (/\ last.op = "UpdateContact"
        /\ "email" \in DOMAIN last.input.data
        /\ \E c \in last.pre.contacts :
               c.email = last.input.data.email /\ c.id # last.input.id) =>
           /\ last.res.threw = "AppError"
           /\ contacts = last.pre.contacts
           /\ \A i \in DOMAIN last.calls :
                  last.calls[i].method # "contactRepo.findByEmail"

\* The update of a stored contact to the email of another one was refused
\* with 500 after contactRepo.update had been invoked.
C27_Witness ==
    /\ last.op = "UpdateContact"
    /\ last.input.id \in {c.id : c \in contacts}
    /\ "email" \in DOMAIN last.input.data
    /\ \E c \in contacts : c.email = last.input.data.email /\ c.id # last.input.id
    /\ Status(last.res, 500)
    /\ Len(last.calls) = 2
    /\ last.calls[2].method = "contactRepo.update"

\* The executions that have ended, of any of the use cases `ops`.
Ended(ops) == {p \in Procs : inflight[p].pc = "done" /\ inflight[p].op \in ops}

\* C28: however a DeleteContact interleaves with UpdateContact or
\* PromoteContact executions on the same id, and a DeleteProject with
\* UpdateProject executions, once the delete has succeeded the row is absent,
\* and every write that ends after it fails with an application error and
\* writes nothing: 404 when its findById ran after the delete, 500 when the
\* delete fell between its findById and its update. A write reports success
\* only if it ended before the delete.
C28_DeleteBeatsWrites ==
    \A d \in Ended({"DeleteContact", "DeleteProject"}) :
        ~Threw(inflight[d].res) =>
            /\ inflight[d].input.id \notin
                   Ids(IF inflight[d].op = "DeleteContact" THEN contacts ELSE projects)
            /\ \A u \in Ended({"UpdateContact", "PromoteContact", "UpdateProject"}) :
                   inflight[u].seq > inflight[d].seq =>
                       /\ inflight[u].res.threw = "AppError"
                       /\ ~inflight[u].wrote
                       /\ FoundNone(u) => Status(inflight[u].res, 404)
                       /\ Len(inflight[u].calls) = 2 => Status(inflight[u].res, 500)

\* A contact was deleted between the findById and the update of an
\* UpdateContact, which failed with 500.
C28_Witness ==
    \E d \in Ended({"DeleteContact"}), u \in Ended({"UpdateContact"}) :
        /\ ~Threw(inflight[d].res)
        /\ inflight[u].seq > inflight[d].seq
        /\ ~FoundNone(u)
        /\ Invoked(u, "contactRepo.update")
        /\ Status(inflight[u].res, 500)
        /\ contacts = {}

\* A project was deleted between the findById and the update of an
\* UpdateProject, which failed with 500.
C28_WitnessProject ==
    \E d \in Ended({"DeleteProject"}), u \in Ended({"UpdateProject"}) :
        /\ ~Threw(inflight[d].res)
        /\ inflight[u].seq > inflight[d].seq
        /\ Invoked(u, "projectRepo.update")
        /\ Status(inflight[u].res, 500)

\* A promotion looked the contact up after it had been deleted: 404.
C28_WitnessNotFound ==
    \E d \in Ended({"DeleteContact"}), u \in Ended({"PromoteContact"}) :
        /\ ~Threw(inflight[d].res)
        /\ inflight[u].seq > inflight[d].seq
        /\ FoundNone(u)
        /\ Status(inflight[u].res, 404)

ListUseCases == {"ListContacts", "ListProjects", "ListProjectsByContact"}

\* The limit a list execution normalised its parameters to.
LimitOf(p) ==
    Max(1, IF "limit" \in DOMAIN inflight[p].input.params
           THEN inflight[p].input.params.limit ELSE 10)

\* C29: every result {data, totalCount} a list use case returns has
\* data.length <= limit and data.length <= totalCount, also when creations
\* and deletions are served between its page query and its count query.
C29_AsClaimed ==
    \A p \in Ended(ListUseCases) :
        ~Threw(inflight[p].res) =>
            /\ Len(inflight[p].res.value.data) <= LimitOf(p)
            /\ Len(inflight[p].res.value.data) <= inflight[p].res.value.totalCount

\* A list whose page query found a row that was deleted before its count
\* query ran: it returned one row and totalCount 0.
C29_MoreDataThanCount ==
    \E p \in Ended(ListUseCases) :
        /\ ~Threw(inflight[p].res)
        /\ inflight[p].input.first = 1
        /\ Len(inflight[p].res.value.data) = 1
        /\ inflight[p].res.value.totalCount = 0

\* The page is never longer than the limit.
C29_WithinLimit ==
    \A p \in Ended(ListUseCases) :
        ~Threw(inflight[p].res) => Len(inflight[p].res.value.data) <= LimitOf(p)

\* The request was refused by projectFormSchema.
SchemaRefused ==
    /\ last.res.status = 400
    /\ last.res.json.message = [tpl |-> "Invalid project data", args |-> <<>>]

\* The request was refused by CreateProject for its due date.
DueDateRefused ==
    /\ last.res.status = 400
    /\ last.res.json.message.tpl = "Invalid due date: must be a future date, received ${}"

\* C30 as claimed: a due date that projectFormSchema accepts is accepted by
\* CreateProject, so that no request that passes the schema is refused by the
\* use case for its due date.
C30_AsClaimed ==
    (last.op = "POST" /\ ~SchemaRefused) => ~DueDateRefused

\* C30, amended: the schema accepts the due dates from the start of today on,
\* CreateProject those after now: a request whose due date lies between the
\* start of today and now passes the schema and is refused by the use case
\* with 400, nothing being stored; every due date the use case accepts has
\* passed the schema.
C30_SchemaIsWeaker ==
    last.op = "POST" =>
        LET due == last.input.body.dueDate.ms
        IN  /\ SchemaRefused <=> due < StartOfDay(now)
            /\ DueDateRefused <=> (StartOfDay(now) <= due /\ due <= now)
            /\ DueDateRefused =>
                 /\ projects = last.pre.projects
                 /\ last.calls = <<>>
            /\ due > now =>
                 /\ Len(last.ucs) = 1
                 /\ last.ucs[1].uc = "CreateProject"
                 /\ Len(last.calls) = 1
                 /\ last.calls[1].method = "projectRepo.create"

\* A due date earlier today, after the clock had advanced, passed the schema
\* and was refused by CreateProject.
C30_Witness ==
    /\ last.op = "POST"
    /\ now > 0
    /\ last.input.body.dueDate.ms < now
    /\ DueDateRefused
    /\ Len(last.ucs) = 1
    /\ last.ucs[1].uc = "CreateProject"

====
